---------------------------- MODULE Spec2Model ----------------------------
(***************************************************************************)
(* Numerical core of curva_longitud: composite Simpson integration,       *)
(* central-difference derivative, arc length by quadrature and by segment *)
(* sum (calculos_numericos.py, calculo_longitud.py) and the monotonicity  *)
(* filter of the spline fit (ajuste_curva.py).                            *)
(*                                                                         *)
(* Real numbers are exact rationals <<num, den>> in lowest terms with     *)
(* den > 0.  Abscissae and ordinates of the length estimators are         *)
(* measured in units of the default derivative step (0.0001), abscissae   *)
(* of the spline filter in units of the filter tolerance (1e-10).          *)
(* a, b, x_min, x_max are plain Python numbers, so a division by the      *)
(* integer 0 raises ZeroDivisionError.                                     *)
(***************************************************************************)
EXTENDS Integers, Sequences, FiniteSets, TLC

VARIABLES pc, op, args, res

vars == <<pc, op, args, res>>

---------------------------------------------------------------------------
(* Bounds of the model *)

\* largest |bound| of an integration / sampling interval
MaxCoord == 2
\* largest |n| (subinterval count) and |num_puntos| (sample count)
MaxN == 4
\* denominator of the fixed-point square root (precision of x ** 0.5)
SqrtScale == 16
\* largest number of points handed to ajuste_spline
MaxPuntos == 4
\* largest abscissa of a point, in units of 1e-10
MaxX == 6
\* largest abscissa of a point sampled from a polynomial
MaxAbscisa == 3

---------------------------------------------------------------------------
(* Exact rational arithmetic *)

Abs(k) == IF k < 0 THEN -k ELSE k

RECURSIVE GCD(_, _)
GCD(m, k) == IF k = 0 THEN m ELSE GCD(k, m % k)

Rat(p, q) ==
    LET g == GCD(Abs(p), Abs(q))
        s == IF q < 0 THEN -1 ELSE 1
    IN  <<(s * p) \div g, (s * q) \div g>>

RInt(k) == <<k, 1>>
Zero == RInt(0)
One == RInt(1)

\* sum and difference over the least common denominator, g = GCD(x[2], y[2])
RAddOver(x, y, g) ==
    Rat(x[1] * (y[2] \div g) + y[1] * (x[2] \div g), (x[2] \div g) * y[2])
RSubOver(x, y, g) ==
    Rat(x[1] * (y[2] \div g) - y[1] * (x[2] \div g), (x[2] \div g) * y[2])
RAdd(x, y) == RAddOver(x, y, GCD(x[2], y[2]))
RSub(x, y) == RSubOver(x, y, GCD(x[2], y[2]))
RMul(x, y) == Rat(x[1] * y[1], x[2] * y[2])
\* y # 0
RDiv(x, y) == Rat(x[1] * y[2], x[2] * y[1])
RLt(x, y) == x[1] * y[2] < y[1] * x[2]
RLe(x, y) == x[1] * y[2] <= y[1] * x[2]

\* largest r in lo .. hi - 1 with r * r <= v, given lo * lo <= v < hi * hi
RECURSIVE IsqrtIn(_, _, _)
IsqrtIn(v, lo, hi) ==
    IF hi - lo <= 1 THEN lo
    ELSE LET mid == (lo + hi) \div 2
         IN  IF mid * mid <= v THEN IsqrtIn(v, mid, hi) ELSE IsqrtIn(v, lo, mid)

RECURSIVE Above(_, _)
Above(v, hi) == IF hi * hi > v THEN hi ELSE Above(v, 2 * hi)

Isqrt(v) == IsqrtIn(v, 0, Above(v, 1))

\* <<quotient, remainder>> of 2 * b * j by q, given those of b * j
Doble(qr, q) ==
    IF qr[2] >= q - qr[2] THEN <<2 * qr[1] + 1, qr[2] - (q - qr[2])>>
    ELSE <<2 * qr[1], 2 * qr[2]>>

\* <<quotient, remainder>> of b * (j + 1) by q, given those of b * j
MasUno(qr, b, q) ==
    IF qr[2] >= q - b THEN <<qr[1] + 1, qr[2] - (q - b)>>
    ELSE <<qr[1], qr[2] + b>>

\* <<quotient, remainder>> of b * k by q for 0 <= b < q, by binary expansion
\* of k: b * k itself is never formed
RECURSIVE MulDivMod(_, _, _)
MulDivMod(b, k, q) ==
    IF k = 0 THEN <<0, 0>>
    ELSE IF k % 2 = 1 THEN MasUno(Doble(MulDivMod(b, k \div 2, q), q), b, q)
    ELSE Doble(MulDivMod(b, k \div 2, q), q)

\* (p * k) \div q
MulDiv(p, k, q) == (p \div q) * k + MulDivMod(p % q, k, q)[1]

\* x ** 0.5 and np.sqrt for x >= 0, rounded down to a multiple of 1/SqrtScale
Sqrt(x) == Rat(Isqrt(MulDiv(x[1], SqrtScale * SqrtScale, x[2])), SqrtScale)

---------------------------------------------------------------------------
(* Outcome of a call: a returned value or a raised exception *)

Ok(v) == [st |-> "ok", val |-> v, err |-> "none"]
Raise(e) == [st |-> "raise", val |-> Zero, err |-> e]

---------------------------------------------------------------------------
(* Curves: a callable y = f(x).  coef = <<c0, c1, c2>> is the polynomial    *)
(* c0 + c1 x + c2 x^2 it computes where it is defined; dom is where it is  *)
(* defined: "all", "ge0" (it raises err at x < 0: an interpolant with      *)
(* bounds_error, a square root) or "ne0" (it raises err at x = 0: a        *)
(* division by x); vec is what a call with a whole numpy array does: "ok"  *)
(* evaluates element-wise, otherwise the named exception is raised (a      *)
(* scalar-only callable).                                                   *)

Curve(coef, dom, err, vec) ==
    [coef |-> coef, dom |-> dom, err |-> err, vec |-> vec]

PolyVal(coef, x) ==
    RAdd(RInt(coef[1]), RAdd(RMul(RInt(coef[2]), x), RMul(RInt(coef[3]), RMul(x, x))))

InDomain(c, x) ==
    CASE c.dom = "all" -> TRUE
      [] c.dom = "ge0" -> RLe(Zero, x)
      [] c.dom = "ne0" -> x # Zero

\* funcion(xi) for a scalar xi
EvalCurve(c, x) == IF InDomain(c, x) THEN Ok(PolyVal(c.coef, x)) ELSE Raise(c.err)


---------------------------------------------------------------------------
(* calculos_numericos.py *)

\* default step of derivada_numerica and longitud_arco (0.0001), the unit of
\* length of the model
H == 1

\* variant that divides the difference by h
CocienteSinDoble(fp, fm, h) ==
    IF fp.st # "ok" THEN fp
    ELSE IF fm.st # "ok" THEN fm
    ELSE IF h = Zero THEN Raise("ZeroDivisionError")
    ELSE Ok(RDiv(RSub(fp.val, fm.val), h))

\* derivada_numerica(f, x, h): f(x + h) is evaluated first, then f(x - h);
\* an exception of f propagates; h = 0 divides by the float 0.0
\* (fp - fm) / (2 * h), fp and fm the outcomes of f(x + h) and f(x - h)
Cociente(fp, fm, h) ==
    IF fp.st # "ok" THEN fp
    ELSE IF fm.st # "ok" THEN fm
    ELSE IF h = Zero THEN Raise("ZeroDivisionError")
    ELSE Ok(RDiv(RSub(fp.val, fm.val), RMul(RInt(2), h)))

DerivadaNumerica(c, x, h) ==
    Cociente(EvalCurve(c, RAdd(x, h)), EvalCurve(c, RSub(x, h)), h)

\* (1 + derivada ** 2) ** 0.5, derivada the outcome of derivada_numerica
RaizUnoMasCuadrado(d) ==
    IF d.st # "ok" THEN d ELSE Ok(Sqrt(RAdd(One, RMul(d.val, d.val))))

\* integrado(x) of longitud_arco
Integrado(c, h, x) == RaizUnoMasCuadrado(DerivadaNumerica(c, x, h))

\* The function handed to simpson_compuesto: a curve itself, or the closure
\* integrado of longitud_arco over a curve
FCurve(c) == [kind |-> "curve", c |-> c, h |-> Zero]
FIntegrado(c, h) == [kind |-> "integrado", c |-> c, h |-> h]

Apply(fd, x) ==
    IF fd.kind = "curve" THEN EvalCurve(fd.c, x) ELSE Integrado(fd.c, fd.h, x)

\* State of the running sum: suma, the points at which f was called (in
\* order), and the exception in flight, if any
Acc0 == [st |-> "ok", val |-> Zero, err |-> "none", evals |-> <<>>]

\* variant that swallows the exception of f and adds nothing
AcumulaSilencia(acc, x, w, y) ==
    [acc EXCEPT !.val = IF y.st = "ok" THEN RAdd(acc.val, RMul(RInt(w), y.val))
                         ELSE acc.val,
                !.evals = Append(acc.evals, x)]

\* suma += w * y, y the outcome of f(x): an exception of f ends the sum
Acumula(acc, x, w, y) ==
    IF y.st = "ok"
    THEN [acc EXCEPT !.val = RAdd(acc.val, RMul(RInt(w), y.val)),
                     !.evals = Append(acc.evals, x)]
    ELSE [acc EXCEPT !.st = "raise", !.err = y.err,
                     !.evals = Append(acc.evals, x)]

\* suma += w * f(x): nothing more is evaluated once an exception is in flight
SumaMas(fd, x, w, acc) ==
    IF acc.st # "ok" THEN acc ELSE Acumula(acc, x, w, Apply(fd, x))

\* variant without the parity adjustment
NSinAjuste(n) == n

\* if n % 2 != 0: n += 1
NUsado(n) == IF n % 2 # 0 THEN n + 1 ELSE n

\* variant whose loops run up to n inclusive
RangoHastaInclusive(n) == n + 1

\* stop value of: for i in range(start, n, 2)
RangoHasta(n) == n

\* for i in range(i, n, 2): x_i = a + i * h; suma += w * f(x_i)
RECURSIVE Bucle(_, _, _, _, _, _, _)
Bucle(fd, a, h, i, n, w, acc) ==
    IF i >= RangoHasta(n) THEN acc
    ELSE Bucle(fd, a, h, i + 2, n, w,
               SumaMas(fd, RAdd(a, RMul(RInt(i), h)), w, acc))

\* variant with the factor of the trapezoid rule
ResultadoMitad(h, suma) == RMul(RDiv(h, RInt(2)), suma)

\* resultado = (h / 3) * suma
Resultado(h, suma) == RMul(RDiv(h, RInt(3)), suma)

\* return resultado, unless an exception is in flight
Retorno(h, acc) ==
    IF acc.st = "ok" THEN [acc EXCEPT !.val = Resultado(h, acc.val)] ELSE acc

\* lines 40-57: suma = f(a) + f(b), the loop over the odd indices, the loop
\* over the even indices, the result
SimpsonConPaso(fd, a, b, n, h) ==
    Retorno(h, Bucle(fd, a, h, 2, n, 2,
                     Bucle(fd, a, h, 1, n, 4,
                           SumaMas(fd, b, 1, SumaMas(fd, a, 1, Acc0)))))

\* line 37: h = (b - a) / n
SimpsonConN(fd, a, b, n) ==
    IF n = 0
    THEN [Acc0 EXCEPT !.st = "raise", !.err = "ZeroDivisionError"]
    ELSE SimpsonConPaso(fd, a, b, n, RDiv(RSub(b, a), RInt(n)))

\* simpson_compuesto(f, a, b, n)
SimpsonCompuesto(fd, a, b, n) == SimpsonConN(fd, a, b, NUsado(n))

\* longitud_arco(f, a, b, n, h)
LongitudArco(c, a, b, n, h) == SimpsonCompuesto(FIntegrado(c, h), a, b, n)

---------------------------------------------------------------------------
(* calculo_longitud.py (and the same segment sum in Demo2.py) *)

\* np.linspace(x_min, x_max, num): num < 0 raises ValueError
Linspace(x_min, x_max, num) ==
    IF num = 1 THEN <<x_min>>
    ELSE [i \in 1 .. num |->
            RAdd(x_min, RMul(RInt(i - 1), RDiv(RSub(x_max, x_min), RInt(num - 1))))]

\* funcion(x) with x the whole array
LlamadaVectorial(c, xs) ==
    IF c.vec # "ok" THEN [st |-> "raise", err |-> c.vec, ys |-> <<>>, punto |-> FALSE]
    ELSE IF \E k \in 1 .. Len(xs) : ~InDomain(c, xs[k])
    THEN [st |-> "raise", err |-> c.err, ys |-> <<>>, punto |-> TRUE]
    ELSE [st |-> "ok", err |-> "none", ys |-> [k \in 1 .. Len(xs) |-> PolyVal(c.coef, xs[k])],
          punto |-> FALSE]

\* np.array([funcion(xi) for xi in x])
LlamadaPuntoAPunto(c, xs) ==
    IF \E k \in 1 .. Len(xs) : ~InDomain(c, xs[k])
    THEN [st |-> "raise", err |-> c.err, ys |-> <<>>, punto |-> TRUE]
    ELSE [st |-> "ok", err |-> "none", ys |-> [k \in 1 .. Len(xs) |-> PolyVal(c.coef, xs[k])],
          punto |-> FALSE]

\* except TypeError:
Captura(e) == e = "TypeError"

\* v the outcome of y = funcion(x);
\* except TypeError: y = [funcion(xi) for xi in x]
ExceptTypeError(c, xs, v) ==
    IF v.st = "raise" /\ Captura(v.err) THEN LlamadaPuntoAPunto(c, xs) ELSE v

\* try: y = funcion(x)  except TypeError: ...
Evaluar(c, xs) == ExceptTypeError(c, xs, LlamadaVectorial(c, xs))

\* np.sqrt(dx**2 + dy**2)
Segmento(dx, dy) == Sqrt(RAdd(RMul(dx, dx), RMul(dy, dy)))

\* the sum of segments lo .. hi - 1, by halves
RECURSIVE SumaEntre(_, _, _, _)
SumaEntre(xs, ys, lo, hi) ==
    IF hi <= lo THEN Zero
    ELSE IF hi = lo + 1
    THEN Segmento(RSub(xs[lo + 1], xs[lo]), RSub(ys[lo + 1], ys[lo]))
    ELSE RAdd(SumaEntre(xs, ys, lo, (lo + hi) \div 2),
              SumaEntre(xs, ys, (lo + hi) \div 2, hi))

\* np.sum(segmentos) over dx = np.diff(x), dy = np.diff(y), from segment k on
SumaSegmentos(xs, ys, k) == SumaEntre(xs, ys, k, Len(xs))

\* Outcome of a length estimator: metodo is the strategy that produced it,
\* falloCurva whether an evaluation of the curve at a point raised during
\* the call
Longitud(st, val, err, metodo, falloCurva) ==
    [st |-> st, val |-> val, err |-> err, metodo |-> metodo, falloCurva |-> falloCurva]

\* lines 51-61, e the outcome of the evaluation of the curve on xs
SumaDe(xs, e) ==
    IF e.st = "raise" THEN Longitud("raise", Zero, e.err, "segmentos", e.punto)
    ELSE Longitud("ok", SumaSegmentos(xs, e.ys, 1), "none", "segmentos", FALSE)

\* lines 43-61 on the samples xs
SobreMuestras(c, xs) == SumaDe(xs, Evaluar(c, xs))

\* the segment sum: lines 39-61 of calculo_longitud.py, the whole of
\* calcular_longitud_curva in Demo2.py
PorSegmentos(c, x_min, x_max, num_puntos) ==
    IF num_puntos < 0 THEN Longitud("raise", Zero, "ValueError", "segmentos", FALSE)
    ELSE SobreMuestras(c, Linspace(x_min, x_max, num_puntos))

\* the outcome q of simpson_compuesto as a length; an exception raised
\* after f was called is an exception of the curve
ComoLongitud(q) ==
    Longitud(q.st, q.val, q.err, "simpson", q.st = "raise" /\ Len(q.evals) > 0)

\* longitud_arco as a length estimator
PorCuadratura(c, a, b, n, h) == ComoLongitud(LongitudArco(c, a, b, n, h))

\* lines 31-39: q the outcome of longitud_arco, s that of the segment sum;
\* the try returns q, except Exception falls through to the segment sum
Elegir(usar, q, s) ==
    IF usar /\ q.st = "ok" THEN q
    ELSE IF usar THEN [s EXCEPT !.falloCurva = s.falloCurva \/ q.falloCurva]
    ELSE s

\* calcular_longitud_curva(funcion, x_min, x_max, num_puntos) of
\* calculo_longitud.py; usar is USAR_CALCULOS_NUMERICOS
CalcularLongitudCurva(usar, c, x_min, x_max, num_puntos) ==
    Elegir(usar, PorCuadratura(c, x_min, x_max, num_puntos, RInt(H)),
           PorSegmentos(c, x_min, x_max, num_puntos))

---------------------------------------------------------------------------
(* Inputs *)

Coords == (-MaxCoord) .. MaxCoord
Counts == (-MaxN) .. MaxN

ErrTypes == {"ValueError", "ZeroDivisionError"}

\* 1, x, x^2, 2 - x + x^2
Polys == {<<1, 0, 0>>, <<0, 1, 0>>, <<0, 0, 1>>, <<2, -1, 1>>}

\* curves defined everywhere, called with scalars or arrays
TotalCurves == {Curve(p, "all", "ValueError", "ok") : p \in Polys}
\* curves that raise below x = 0 or at x = 0
PartialCurves ==
    {Curve(<<0, 0, 1>>, d, e, "ok") : d \in {"ge0", "ne0"}, e \in ErrTypes}
\* curves that can only be called with one scalar at a time
ScalarOnlyCurves ==
    {Curve(<<0, 0, 1>>, d, "ValueError", v) : d \in {"all", "ge0"}, v \in {"TypeError", "ValueError"}}
AllCurves == TotalCurves \cup PartialCurves \cup ScalarOnlyCurves

---------------------------------------------------------------------------
(* Specification of simpson_compuesto: the inputs are drawn, the call runs *)

InitSimpson ==
    /\ pc = "call"
    /\ op = "simpson_compuesto"
    /\ args \in [f : {FCurve(c) : c \in TotalCurves \cup PartialCurves},
                 a : Coords, b : Coords, n : Counts]
    /\ res = Acc0

CallSimpsonCompuesto ==
    /\ pc = "call"
    /\ op = "simpson_compuesto"
    /\ res' = SimpsonCompuesto(args.f, RInt(args.a), RInt(args.b), args.n)
    /\ pc' = "done"
    /\ UNCHANGED <<op, args>>

NextSimpson == CallSimpsonCompuesto

SpecSimpson == InitSimpson /\ [][NextSimpson]_vars

---------------------------------------------------------------------------
(* Simpson's rule stated over the nodes 0 .. n *)

SimpsonDone == pc = "done" /\ op = "simpson_compuesto"

\* weight of node i of n subintervals
Peso(i, n) == IF i = 0 \/ i = n THEN 1 ELSE IF i % 2 = 1 THEN 4 ELSE 2

Nodo(a, h, i) == RAdd(a, RMul(RInt(i), h))

RECURSIVE SumaPonderada(_, _, _, _, _)
SumaPonderada(fd, a, h, n, i) ==
    IF i > n THEN Zero
    ELSE RAdd(RMul(RInt(Peso(i, n)), Apply(fd, Nodo(a, h, i)).val),
              SumaPonderada(fd, a, h, n, i + 1))

Veces(s, x) == Cardinality({k \in 1 .. Len(s) : s[k] = x})

\* the points the code evaluates f at: the two ends and the interior nodes
Evaluados(a, b, n) ==
    {a, b} \cup {Nodo(a, RDiv(RSub(b, a), RInt(n)), i) : i \in 1 .. (n - 1)}

ArgA == RInt(args.a)
ArgB == RInt(args.b)

\* C1: for even n >= 2 and f defined at every node, simpson_compuesto returns
\* (h/3) * sum over i in 0..n of w_i * f(a + i*h) with h = (b-a)/n, w = 1 at
\* i = 0 and i = n, 4 at odd i, 2 at even interior i, and f is called once
\* per node.
C1_SimpsonFormula ==
    (SimpsonDone /\ args.n >= 2 /\ args.n % 2 = 0
       /\ \A x \in Evaluados(ArgA, ArgB, args.n) : InDomain(args.f.c, x))
    => LET h == RDiv(RSub(ArgB, ArgA), RInt(args.n))
       IN  /\ res.st = "ok"
           /\ res.val = RMul(RDiv(h, RInt(3)),
                             SumaPonderada(args.f, ArgA, h, args.n, 0))
           /\ Len(res.evals) = args.n + 1
           /\ \A i \in 0 .. args.n :
                Veces(res.evals, Nodo(ArgA, h, i))
                  = Cardinality({j \in 0 .. args.n : Nodo(ArgA, h, j) = Nodo(ArgA, h, i)})

C1_Witness ==
    /\ SimpsonDone /\ args.n = 4 /\ args.a < args.b
    /\ args.f.c.coef = <<0, 0, 1>> /\ res.st = "ok" /\ RLt(Zero, res.val)

\* C2: for odd n the call is the call with n + 1: same outcome, same points
\* of evaluation in the same order; the count used is always even.
C2_OddUsesNext ==
    SimpsonDone
    => /\ NUsado(args.n) % 2 = 0
       /\ (args.n % 2 = 0 => NUsado(args.n) = args.n)
       /\ (args.n % 2 # 0 =>
             res = SimpsonCompuesto(args.f, ArgA, ArgB, args.n + 1))
       /\ (res.st = "ok" /\ args.n >= 1 => Len(res.evals) = NUsado(args.n) + 1)

C2_Witness ==
    /\ SimpsonDone /\ args.n = 3 /\ args.a # args.b
    /\ res.st = "ok" /\ Len(res.evals) = 5

C4_Original ==
    (SimpsonDone /\ args.f.c.dom = "all") => res.st = "ok"

\* C4 amended: when the count used is not 0 (n is neither 0 nor -1) the call
\* returns a number if f is defined at every point it is evaluated at, and
\* otherwise raises the exception of f; f is not called after it raised.
C4_FailsOnlyWhenFRaises ==
    (SimpsonDone /\ args.n \notin {0, -1})
    => LET ev == Evaluados(ArgA, ArgB, NUsado(args.n))
       IN  /\ (res.st = "ok") <=> (\A x \in ev : InDomain(args.f.c, x))
           /\ res.st = "raise" =>
                /\ res.err = args.f.c.err
                /\ ~InDomain(args.f.c, res.evals[Len(res.evals)])
                /\ \A k \in 1 .. (Len(res.evals) - 1) : InDomain(args.f.c, res.evals[k])

\* f raises at an interior node, after it returned at both ends
C4_Witness ==
    /\ SimpsonDone /\ args.n = 4 /\ res.st = "raise"
    /\ res.err = "ZeroDivisionError" /\ Len(res.evals) >= 3

---------------------------------------------------------------------------
(* Specification of the length estimators *)

InitLongitud ==
    /\ pc = "call"
    /\ \/ /\ op = "longitud_arco"
          /\ args \in [funcion : AllCurves, x_min : Coords, x_max : Coords,
                       num_puntos : Counts, usar : {TRUE}]
       \/ /\ op = "calcular_longitud_curva"
          /\ args \in [funcion : AllCurves, x_min : Coords, x_max : Coords,
                       num_puntos : Counts, usar : BOOLEAN]
       \/ /\ op = "Demo2.calcular_longitud_curva"
          /\ args \in [funcion : AllCurves, x_min : Coords, x_max : Coords,
                       num_puntos : Counts, usar : {FALSE}]
    /\ res = Longitud("ok", Zero, "none", "none", FALSE)

XMin == RInt(args.x_min)
XMax == RInt(args.x_max)

\* longitud_arco(f, a, b, n) with the default h
CallLongitudArco ==
    /\ pc = "call"
    /\ op = "longitud_arco"
    /\ res' = PorCuadratura(args.funcion, XMin, XMax, args.num_puntos, RInt(H))
    /\ pc' = "done"
    /\ UNCHANGED <<op, args>>

CallCalcularLongitudCurva ==
    /\ pc = "call"
    /\ op = "calcular_longitud_curva"
    /\ res' = CalcularLongitudCurva(args.usar, args.funcion, XMin, XMax, args.num_puntos)
    /\ pc' = "done"
    /\ UNCHANGED <<op, args>>

CallCalcularLongitudCurvaDemo2 ==
    /\ pc = "call"
    /\ op = "Demo2.calcular_longitud_curva"
    /\ res' = PorSegmentos(args.funcion, XMin, XMax, args.num_puntos)
    /\ pc' = "done"
    /\ UNCHANGED <<op, args>>

NextLongitud ==
    \/ CallLongitudArco
    \/ CallCalcularLongitudCurva
    \/ CallCalcularLongitudCurvaDemo2

SpecLongitud == InitLongitud /\ [][NextLongitud]_vars

---------------------------------------------------------------------------
(* Properties of the length estimators *)

EsCalcularLongitudCurva ==
    op \in {"calcular_longitud_curva", "Demo2.calcular_longitud_curva"}

\* the outcome as the caller sees it
Visible(r) == <<r.st, r.val, r.err>>

\* the same call on curve c
Relanzar(c) ==
    IF op = "calcular_longitud_curva"
    THEN CalcularLongitudCurva(args.usar, c, XMin, XMax, args.num_puntos)
    ELSE PorSegmentos(c, XMin, XMax, args.num_puntos)

\* C5: every length returned by longitud_arco or calcular_longitud_curva, on
\* either strategy, is non-negative, for all curves, all sample counts for
\* which a value is returned (stated here for counts >= 1) and bounds in
\* either order.
C5_NonNegative ==
    (pc = "done" /\ (op = "longitud_arco" \/ EsCalcularLongitudCurva)
       /\ args.num_puntos >= 1 /\ res.st = "ok")
    => RLe(Zero, res.val)

\* C6: calcular_longitud_curva returns 0 and raises nothing when
\* x_min = x_max or num_puntos < 2 (stated here for a curve defined
\* everywhere that accepts arrays and for counts >= 0).
C6_DegenerateIsZero ==
    (pc = "done" /\ EsCalcularLongitudCurva /\ args.funcion \in TotalCurves
       /\ args.num_puntos >= 0
       /\ (args.x_min = args.x_max \/ args.num_puntos < 2))
    => res.st = "ok" /\ res.val = Zero

\* C7: if an evaluation of the curve raised during the call,
\* calcular_longitud_curva raises: it returns no number (stated here for
\* counts >= 2).
C7_EvaluationErrorPropagates ==
    (pc = "done" /\ EsCalcularLongitudCurva /\ args.num_puntos >= 2 /\ res.falloCurva)
    => res.st = "raise"

\* C8: for a curve that raises when called with the whole sample vector,
\* whatever the exception, calcular_longitud_curva gives what it gives for
\* the same curve accepting vectors (stated here for counts >= 2).
C8_BothConventions ==
    (pc = "done" /\ EsCalcularLongitudCurva /\ args.num_puntos >= 2
       /\ args.funcion.vec # "ok")
    => Visible(res) = Visible(Relanzar([args.funcion EXCEPT !.vec = "ok"]))

\* C9: calcular_longitud_curva of calculo_longitud.py returns the result of
\* exactly one strategy: that of longitud_arco(funcion, x_min, x_max,
\* n = num_puntos) when the numeric module is available, and the segment sum
\* only when it is not (stated here for counts >= 2 and calls that return).
C9_OneStrategy ==
    (pc = "done" /\ op = "calcular_longitud_curva" /\ args.num_puntos >= 2
       /\ res.st = "ok")
    => /\ args.usar =>
            res = PorCuadratura(args.funcion, XMin, XMax, args.num_puntos, RInt(H))
       /\ res.metodo = "segmentos" => ~args.usar

---------------------------------------------------------------------------
(* ajuste_curva.py: ajuste_polinomio, and np.polyfit as Demo2.py calls it  *)
(*                                                                         *)
(* A row of puntos is <<x, y, finito>>: finito is FALSE when y is NaN.     *)
(* The rows handed to a fit are samples, at pairwise distinct integer      *)
(* abscissae, of a polynomial of degree <= 2 with integer coefficients,    *)
(* and a fit of degree g gets at least min(g, 2) + 1 of them: the least    *)
(* squares have then one solution with no residual, the polynomial of      *)
(* degree <= min(g, 2) through the rows, and its divided differences are   *)
(* integers.  Coefficients are kept lowest first, <<c0, c1, c2>>.          *)

MinDe(m, k) == IF m < k THEN m ELSE k

\* (s.y - r.y) / (s.x - r.x)
Pendiente(r, s) == (s[2] - r[2]) \div (s[1] - r[1])

\* the polynomial c0 + m x + c2 x^2 that takes the value of row r at its x
PorFila(r, m, c2) == <<r[2] - m * r[1] - c2 * r[1] * r[1], m, c2>>

\* the line through rows r and s
Recta(r, s) == PorFila(r, Pendiente(r, s), 0)

\* the parabola through r and s with leading coefficient c2
ParabolaCon(r, s, c2) == PorFila(r, Pendiente(r, s) - c2 * (r[1] + s[1]), c2)

\* the parabola through rows r, s and t
Parabola(r, s, t) ==
    ParabolaCon(r, s, (Pendiente(s, t) - Pendiente(r, s)) \div (t[1] - r[1]))

\* the least-squares solution of degree d <= 2 for rows with no residual
Coeficientes(rows, d) ==
    IF d = 0 THEN <<rows[1][2], 0, 0>>
    ELSE IF d = 1 THEN Recta(rows[1], rows[2])
    ELSE Parabola(rows[1], rows[2], rows[3])

\* Outcome of a fit: the coefficients, or NaN in every coefficient, or the
\* exception raised
Ajuste(st, err, coef, nan) == [st |-> st, err |-> err, coef |-> coef, nan |-> nan]

TodasFinitas(rows) == \A k \in 1 .. Len(rows) : rows[k][3]

\* np.polyfit(x, y, grado), the outcomes it can have: a negative degree
\* raises ValueError, an empty x raises TypeError; with a NaN in the data
\* the LAPACK solver either fails to converge (LinAlgError) or returns NaN
\* in every coefficient, depending on the library build
Polyfit(rows, grado) ==
    IF grado < 0 THEN {Ajuste("raise", "ValueError", <<0, 0, 0>>, FALSE)}
    ELSE IF Len(rows) = 0 THEN {Ajuste("raise", "TypeError", <<0, 0, 0>>, FALSE)}
    ELSE IF ~TodasFinitas(rows)
    THEN {Ajuste("raise", "LinAlgError", <<0, 0, 0>>, FALSE),
          Ajuste("ok", "none", <<0, 0, 0>>, TRUE)}
    ELSE {Ajuste("ok", "none", Coeficientes(rows, MinDe(grado, 2)), FALSE)}

\* ajuste_polinomio(puntos, grado): nothing is caught, the outcome is that
\* of np.polyfit
AjustePolinomio(rows, grado) == Polyfit(rows, grado)

\* funcion_ajustada / funcion_intervalo: np.polyval(coeficientes, x), defined
\* everywhere, for a scalar or an array
FuncionAjustada(coef) == Curve(coef, "all", "ValueError", "ok")

\* the rows of the samples of the polynomial coef at the abscissae xs; the
\* y of row malo (0: none) is NaN
Muestras(coef, xs, malo) ==
    [k \in DOMAIN xs |->
        IF k = malo THEN <<xs[k], 0, FALSE>>
        ELSE <<xs[k], coef[1] + coef[2] * xs[k] + coef[3] * xs[k] * xs[k], TRUE>>]

---------------------------------------------------------------------------
(* ajuste_curva.py: ajuste_spline *)

\* epsilon = 1e-10, the unit of the abscissae of the points
Epsilon == 1

\* puntos[np.argsort(puntos[:,0])]: the rows in ascending x; argsort's
\* default sort is not stable, so rows of equal x come in any order.
\* The set of the orders it can produce, over the rows idx of puntos.
RECURSIVE Ordenados(_, _)
Ordenados(puntos, idx) ==
    IF idx = {} THEN {<<>>}
    ELSE UNION {{<<puntos[i]>> \o t : t \in Ordenados(puntos, idx \ {i})} :
                 i \in {j \in idx : \A k \in idx : puntos[j][1] <= puntos[k][1]}}

\* variant that keeps a point exactly epsilon beyond the last kept
SuperaOIguala(x, ultimo_x) == x >= ultimo_x + Epsilon

\* x[i] > ultimo_x + epsilon
Supera(x, ultimo_x) == x > ultimo_x + Epsilon

\* the loop over the sorted rows from row i on; hay is FALSE while
\* ultimo_x = float('-inf'), which every x exceeds; idx are the rows kept
RECURSIVE Filtrar(_, _, _, _, _)
Filtrar(ord, i, hay, ultimo_x, acc) ==
    IF i > Len(ord) THEN acc
    ELSE IF ~hay \/ Supera(ord[i][1], ultimo_x)
    THEN Filtrar(ord, i + 1, TRUE, ord[i][1],
                 [x |-> Append(acc.x, ord[i][1]), y |-> Append(acc.y, ord[i][2]),
                  idx |-> Append(acc.idx, i)])
    ELSE Filtrar(ord, i + 1, hay, ultimo_x, acc)

Procesado(ord) == Filtrar(ord, 1, FALSE, 0, [x |-> <<>>, y |-> <<>>, idx |-> <<>>])

\* variant whose linear fallback is for fewer than 3 points
PocosPuntosTres(n) == n < 3

\* len(x_procesado) < 4
PocosPuntos(n) == n < 4

\* What ajuste_spline gives back, or the exception it raises: tipo is the
\* kind of curve, extrapola whether it is defined outside the fitted
\* domain, log what was printed, intento what became of the call of
\* UnivariateSpline ("no": not called, "hecho": it returned, "fallo": it
\* raised); ordenados, x, y, idx are the sorted rows and the filtered points
Interp(st, err, tipo, extrapola, log, intento, ord, p) ==
    [st |-> st, err |-> err, tipo |-> tipo, extrapola |-> extrapola, log |-> log,
     intento |-> intento, ordenados |-> ord, x |-> p.x, y |-> p.y, idx |-> p.idx]

\* interp1d needs order + 1 entries: 1 for kind='linear', 4 for kind='cubic'
MinimoInterp1d(kind) == IF kind = "lineal" THEN 1 ELSE 4

\* interpolate.interp1d(x_procesado, y_procesado, kind=kind,
\* bounds_error=False, fill_value="extrapolate"): too few entries raise
\* ValueError
Interp1d(kind, log, intento, ord, p) ==
    IF Len(p.x) < MinimoInterp1d(kind)
    THEN Interp("raise", "ValueError", "none", FALSE, log, intento, ord, p)
    ELSE Interp("ok", "none", kind, TRUE, log, intento, ord, p)

\* the exception UnivariateSpline raises when it raises (s < 0, a NaN in y)
ErrorSpline == "ValueError"

\* variant without the except clause: the exception of UnivariateSpline
\* reaches the caller
SinExcept(falla, ord, p) ==
    IF falla THEN Interp("raise", ErrorSpline, "none", FALSE, <<>>, "fallo", ord, p)
    ELSE Interp("ok", "none", "spline", TRUE, <<>>, "hecho", ord, p)

\* lines 72-82: try: return UnivariateSpline(x, y, s=s); except Exception
\* as e: print the reason, return the cubic interp1d.  A UnivariateSpline
\* extrapolates (ext=0).
ExceptException(falla, ord, p) ==
    IF falla
    THEN Interp1d("cubica", <<<<"Error al ajustar spline", ErrorSpline>>,
                              <<"Recurriendo a interpolacion cubica", "none">>>>,
                  "fallo", ord, p)
    ELSE Interp("ok", "none", "spline", TRUE, <<>>, "hecho", ord, p)

\* lines 65-82 on the filtered points p: the interpolant returned; falla is
\* whether UnivariateSpline raised
Interpolante(ord, p, falla) ==
    IF PocosPuntos(Len(p.x))
    THEN Interp1d("lineal", <<<<"Advertencia: no hay suficientes puntos", "none">>>>,
                  "no", ord, p)
    ELSE ExceptException(falla, ord, p)

\* f(x_new) for the curve f that ajuste_spline returned: with extrapolation
\* nothing raises; interp1d of kind 'linear' takes the slope
\* (y_hi - y_lo) / (x_hi - x_lo) of the segment around x_new, which with a
\* single point is 0 / 0: every value is NaN
EvaluaInterp(f, x_new) ==
    IF f.tipo = "lineal" /\ Len(f.x) < 2 THEN "nan" ELSE "valor"

\* ajuste_spline(puntos, s) on the sorted rows ord
AjusteSpline(ord, falla) == Interpolante(ord, Procesado(ord), falla)

\* the rows of puntos with abscissae xs: <<x, y>> with y the label of the row
Puntos(xs) == [i \in DOMAIN xs |-> <<xs[i], i>>]

\* the abscissae of sampled points, and the polynomials they are sampled
\* from: x, x^2, 2 - x + x^2
Abscisas == 0 .. MaxAbscisa
PolysMuestra == {<<0, 1, 0>>, <<0, 0, 1>>, <<2, -1, 1>>}

GradoDe(coef) == IF coef[3] # 0 THEN 2 ELSE IF coef[2] # 0 THEN 1 ELSE 0

\* the fits of n samples of coef whose least squares leave no residual
SinResiduo(coef, n, grado) ==
    n = grado + 1 \/ (n >= grado + 1 /\ grado >= GradoDe(coef))

\* the elements of S, largest first
RECURSIVE Descendente(_)
Descendente(S) ==
    IF S = {} THEN <<>>
    ELSE <<CHOOSE m \in S : \A k \in S : k <= m>>
         \o Descendente(S \ {CHOOSE m \in S : \A k \in S : k <= m})

InitSpline ==
    /\ pc = "call"
    /\ \/ /\ op = "ajuste_spline"
          /\ \E n \in 0 .. MaxPuntos : \E xs \in [1 .. n -> 0 .. MaxX] :
               args = [puntos |-> Puntos(xs)]
          /\ res = Interp("ok", "none", "none", FALSE, <<>>, "no", <<>>,
                          [x |-> <<>>, y |-> <<>>, idx |-> <<>>])
       \/ /\ op = "ajuste_polinomio"
          /\ \E S \in SUBSET Abscisas, coef \in PolysMuestra, malo \in 0 .. 1,
                grado \in -1 .. 3 :
               /\ malo <= Cardinality(S)
               /\ grado < 0 \/ S = {} \/ malo # 0
                    \/ SinResiduo(coef, Cardinality(S), grado)
               /\ args = [puntos |-> Muestras(coef, Descendente(S), malo),
                          grado |-> grado]
          /\ res = Ajuste("ok", "none", <<0, 0, 0>>, FALSE)

CallAjusteSpline ==
    /\ pc = "call"
    /\ op = "ajuste_spline"
    /\ \E ord \in Ordenados(args.puntos, DOMAIN args.puntos) :
         \/ res' = AjusteSpline(ord, FALSE)
         \/ /\ Len(Procesado(ord).x) >= 4
            /\ res' = AjusteSpline(ord, TRUE)
    /\ pc' = "done"
    /\ UNCHANGED <<op, args>>

CallAjustePolinomio ==
    /\ pc = "call"
    /\ op = "ajuste_polinomio"
    /\ res' \in AjustePolinomio(args.puntos, args.grado)
    /\ pc' = "done"
    /\ UNCHANGED <<op, args>>

NextSpline == CallAjusteSpline \/ CallAjustePolinomio

SpecSpline == InitSpline /\ [][NextSpline]_vars

---------------------------------------------------------------------------
(* Properties of the filter of ajuste_spline *)

\* C10: after sorting and filtering, consecutive retained x differ by more
\* than epsilon (so the retained x are strictly increasing and no two are
\* within epsilon); a row is dropped if and only if its x does not exceed
\* the last kept x by more than epsilon, so the first row of the sorted
\* order is kept and each retained row is the first, in sorted order, of
\* the rows within epsilon of it that follow the previous retained row.
C10_FilterStrictlyIncreasing ==
    (pc = "done" /\ op = "ajuste_spline")
    => LET ord == res.ordenados
           K == {res.idx[k] : k \in 1 .. Len(res.idx)}
           UltimoAntes(i) == CHOOSE j \in K : j < i /\ \A m \in K : m < i => m <= j
       IN  /\ \A k \in 1 .. (Len(res.x) - 1) : res.x[k + 1] - res.x[k] > Epsilon
           /\ \A k, m \in 1 .. Len(res.x) :
                k # m => Abs(res.x[k] - res.x[m]) > Epsilon
           /\ Len(res.x) = Len(res.idx) /\ Len(res.y) = Len(res.idx)
           /\ \A k \in 1 .. Len(res.idx) :
                /\ res.x[k] = ord[res.idx[k]][1] /\ res.y[k] = ord[res.idx[k]][2]
                /\ k > 1 => res.idx[k - 1] < res.idx[k]
           /\ \A i \in 1 .. Len(ord) :
                IF i = 1 THEN i \in K
                ELSE (i \notin K) <=> (ord[i][1] <= ord[UltimoAntes(i)][1] + Epsilon)
           /\ \A i \in 1 .. (Len(ord) - 1) : ord[i][1] <= ord[i + 1][1]
           /\ \A r \in 1 .. Len(args.puntos) :
                Cardinality({i \in 1 .. Len(ord) : ord[i] = args.puntos[r]}) = 1

\* rows within epsilon of a kept row are dropped (one of equal x, the second
\* in sorted order, and one exactly epsilon beyond); the next row is beyond
\* epsilon of the last kept row and is kept although it is within epsilon of
\* a dropped row
C10_Witness ==
    /\ pc = "done" /\ op = "ajuste_spline"
    /\ Len(res.ordenados) = 4 /\ res.idx = <<1, 4>>
    /\ res.ordenados[2][1] = res.ordenados[1][1]
    /\ res.ordenados[3][1] = res.ordenados[1][1] + Epsilon
    /\ res.ordenados[4][1] = res.ordenados[3][1] + Epsilon
    /\ res.y[1] = 2

---------------------------------------------------------------------------
(* Properties of the curve ajuste_spline returns *)

SplineDone == pc = "done" /\ op = "ajuste_spline"

HayDuplicados(puntos) ==
    \E i, j \in DOMAIN puntos : i # j /\ puntos[i][1] = puntos[j][1]

Impreso(log, mensaje) == \E k \in 1 .. Len(log) : log[k][1] = mensaje

\* C11: on a point set with duplicate x values ajuste_spline does not raise,
\* and the curve it returns gives a value at every x between the smallest
\* and the largest retained x.
C11_DuplicatesEvaluable ==
    (SplineDone /\ HayDuplicados(args.puntos))
    => /\ res.st = "ok"
       /\ \A x \in res.x[1] .. res.x[Len(res.x)] : EvaluaInterp(res, x) = "valor"

\* C12 as claimed: whenever fewer than 4 filtered points remain the
\* diagnostic is printed and a linear interpolant with extrapolation over
\* the filtered points is returned; UnivariateSpline is called only with at
\* least 4 filtered points.
C12_Original ==
    SplineDone
    => /\ Len(res.x) < 4 =>
            /\ res.st = "ok" /\ res.tipo = "lineal" /\ res.extrapola
            /\ Impreso(res.log, "Advertencia: no hay suficientes puntos")
            /\ res.intento = "no"
       /\ res.intento # "no" => Len(res.x) >= 4

\* C12 amended: with 1, 2 or 3 filtered points the diagnostic is printed and
\* a linear interpolant with extrapolation over the filtered points is
\* returned; with none (an empty point set) the diagnostic is printed and
\* interp1d raises ValueError; UnivariateSpline is called if and only if at
\* least 4 filtered points remain, and then no diagnostic is printed.
C12_LinearBelowFour ==
    SplineDone
    => /\ Len(res.x) \in 1 .. 3 =>
            /\ res.st = "ok" /\ res.tipo = "lineal" /\ res.extrapola
            /\ res.log = <<<<"Advertencia: no hay suficientes puntos", "none">>>>
            /\ res.x = Procesado(res.ordenados).x
            /\ res.y = Procesado(res.ordenados).y
       /\ Len(res.x) = 0 =>
            /\ res.st = "raise" /\ res.err = "ValueError"
            /\ Impreso(res.log, "Advertencia: no hay suficientes puntos")
       /\ (res.intento # "no") <=> (Len(res.x) >= 4)
       /\ Len(res.x) >= 4 => ~Impreso(res.log, "Advertencia: no hay suficientes puntos")

\* three filtered points out of four rows: the linear interpolant
C12_Witness ==
    /\ SplineDone /\ Len(args.puntos) = 4 /\ Len(res.x) = 3
    /\ res.tipo = "lineal" /\ res.intento = "no"

\* C13: with at least 4 filtered points, when UnivariateSpline raises the
\* exception is caught, its reason is printed and the cubic interpolant with
\* extrapolation over the same filtered points is returned: ajuste_spline
\* then never raises.  An exception of the least-squares fit of
\* ajuste_polinomio reaches the caller.
C13_SplineErrorCaught ==
    /\ (SplineDone /\ Len(res.x) >= 4)
         => /\ res.st = "ok"
            /\ res.intento = "fallo" =>
                 /\ res.tipo = "cubica" /\ res.extrapola
                 /\ \E k \in 1 .. Len(res.log) :
                      res.log[k] = <<"Error al ajustar spline", ErrorSpline>>
                 /\ res.x = Procesado(res.ordenados).x
                 /\ res.y = Procesado(res.ordenados).y
            /\ res.intento = "hecho" => res.tipo = "spline" /\ res.log = <<>>
    /\ (pc = "done" /\ op = "ajuste_polinomio")
         => /\ args.grado < 0 => res.st = "raise" /\ res.err = "ValueError"
            /\ (args.grado >= 0 /\ Len(args.puntos) = 0)
                 => res.st = "raise" /\ res.err = "TypeError"
            /\ res.st = "raise" =>
                 \/ args.grado < 0 \/ Len(args.puntos) = 0
                 \/ ~TodasFinitas(args.puntos)

\* UnivariateSpline raised on the filtered points of MaxPuntos distinct rows
C13_Witness ==
    /\ SplineDone /\ Len(args.puntos) = MaxPuntos /\ Len(res.x) >= 4
    /\ res.intento = "fallo" /\ res.tipo = "cubica" /\ res.st = "ok"

---------------------------------------------------------------------------
(* Demo2.py: modelar_por_intervalos, one step per iteration of its loop      *)

\* num_puntos of the length of a sub-interval
NumPuntosIntervalo == 50

\* the default num_puntos of calcular_longitud_curva
NumPuntosPorDefecto == 100

\* variant without the end point (endpoint=False): num_intervalos + 1
\* values that stop short of x_max
LimitesSinFinal(x_min, x_max, num_intervalos) ==
    [i \in 1 .. (num_intervalos + 1) |->
        RAdd(x_min, RMul(RInt(i - 1), RDiv(RSub(x_max, x_min), RInt(num_intervalos + 1))))]

\* limites = np.linspace(x_min, x_max, num_intervalos + 1)
Limites(x_min, x_max, num_intervalos) == Linspace(x_min, x_max, num_intervalos + 1)

\* variant that leaves the upper end of a sub-interval out
EnIntervaloSemiabierto(x, inicio, fin) == RLe(inicio, RInt(x)) /\ RLt(RInt(x), fin)

\* (x >= inicio) & (x <= fin)
EnIntervalo(x, inicio, fin) == RLe(inicio, RInt(x)) /\ RLe(RInt(x), fin)

\* mask: the rows of puntos_ordenados inside the sub-interval
Mascara(ord, inicio, fin) ==
    {k \in 1 .. Len(ord) : EnIntervalo(ord[k][1], inicio, fin)}

\* puntos_ordenados[mask]: the rows from k on whose index is in S, in order
RECURSIVE Filas(_, _, _)
Filas(ord, S, k) ==
    IF k > Len(ord) THEN <<>>
    ELSE (IF k \in S THEN <<ord[k]>> ELSE <<>>) \o Filas(ord, S, k + 1)

RAbs(x) == IF x[1] < 0 THEN <<-x[1], x[2]>> ELSE x
RMin(x, y) == IF RLe(x, y) THEN x ELSE y

\* distancias: np.minimum(np.abs(x - inicio), np.abs(x - fin))
Distancia(x, inicio, fin) ==
    RMin(RAbs(RSub(RInt(x), inicio)), RAbs(RSub(RInt(x), fin)))

\* np.argsort(distancias): the orders of the rows idx by ascending distance;
\* rows at the same distance come in any order
RECURSIVE PorDistancia(_, _, _, _)
PorDistancia(ord, inicio, fin, idx) ==
    IF idx = {} THEN {<<>>}
    ELSE UNION {{<<i>> \o t : t \in PorDistancia(ord, inicio, fin, idx \ {i})} :
                 i \in {j \in idx : \A k \in idx :
                           RLe(Distancia(ord[j][1], inicio, fin),
                               Distancia(ord[k][1], inicio, fin))}}

\* s[:4]
Primeros(s, n) == SubSeq(s, 1, MinDe(n, Len(s)))

\* indices = np.argsort(distancias)[:4], the values it can take
Cercanos(ord, inicio, fin) ==
    {Primeros(s, 4) : s \in PorDistancia(ord, inicio, fin, 1 .. Len(ord))}

\* puntos_ordenados[indices]
FilasDe(ord, indices) == [k \in 1 .. Len(indices) |-> ord[indices[k]]]

\* variant that fits the points of the sub-interval with degree 2 at most
GradoPropioDos(k) == MinDe(k - 1, 2)

\* lines 264-265 and 275-276: the degree for the k points of the
\* sub-interval
GradoPropio(k) == IF k < 4 THEN MinDe(k - 1, 2) ELSE 3

\* variant that borrows only for a sub-interval without points
PrestaSoloVacio(k) == k < 1

\* lines 264-266: len(puntos_intervalo) < 4 and grado < 1
Presta(k) == k < 4 /\ GradoPropio(k) < 1

\* variant that fits more than two borrowed points with degree 3
GradoPrestadoTres(c) == IF c > 2 THEN 3 ELSE MinDe(c - 1, 3)

\* line 274: the degree for the c borrowed points
GradoPrestado(c) == MinDe(c - 1, 3)

\* the rows to fit and the degree: propios is the mask of the sub-interval,
\* indices the 4 nearest rows
Eleccion(ord, propios, indices) ==
    IF Presta(Cardinality(propios))
    THEN [puntos |-> FilasDe(ord, indices), grado |-> GradoPrestado(Len(indices)),
          prestado |-> TRUE, propios |-> propios]
    ELSE [puntos |-> Filas(ord, propios, 1), grado |-> GradoPropio(Cardinality(propios)),
          prestado |-> FALSE, propios |-> propios]

\* a length: NaN, or val; error is the reason printed when the computation
\* raised
Medida(nan, val, error) == [nan |-> nan, val |-> val, error |-> error]

\* lines 288-292: l the outcome of calcular_longitud_curva;
\* except Exception as e: print the reason; longitud = 0
ExceptLongitud(l) ==
    IF l.st = "raise" THEN Medida(FALSE, Zero, l.err) ELSE Medida(FALSE, l.val, "none")

\* variant that measures with half the samples
LongitudConLaMitad(a, inicio, fin, num_puntos) ==
    IF a.nan THEN Medida(TRUE, Zero, "none")
    ELSE ExceptLongitud(PorSegmentos(FuncionAjustada(a.coef), inicio, fin,
                                     num_puntos \div 2))

\* the length of the polynomial of the fit a over [inicio, fin]; a fit whose
\* coefficients are NaN has every ordinate and the sum NaN
LongitudIntervalo(a, inicio, fin, num_puntos) ==
    IF a.nan THEN Medida(TRUE, Zero, "none")
    ELSE ExceptLongitud(PorSegmentos(FuncionAjustada(a.coef), inicio, fin, num_puntos))

\* the local variables of one iteration
Visto(inicio, fin, e, ajustado) ==
    [inicio |-> inicio, fin |-> fin, propios |-> e.propios, puntos |-> e.puntos,
     grado |-> e.grado, prestado |-> e.prestado, ajustado |-> ajustado]

\* modelos.append(((inicio, fin), funcion_intervalo, coefs, longitud))
Modelo(inicio, fin, a, longitud) ==
    [inicio |-> inicio, fin |-> fin, coefs |-> a.coef, nan |-> a.nan,
     longitud |-> longitud]

\* variant whose loop does not advance
IteracionSinAvance(r, inicio, fin, e, a) ==
    [r EXCEPT !.vistos = Append(r.vistos, Visto(inicio, fin, e, FALSE))]

\* lines 279-300 for the choice e and the outcome a of np.polyfit: an
\* exception of np.polyfit leaves the function; with one point or none
\* nothing is fitted (a is then not used)
Iteracion(r, inicio, fin, e, a) ==
    IF Len(e.puntos) <= 1
    THEN [r EXCEPT !.i = r.i + 1,
                   !.vistos = Append(r.vistos, Visto(inicio, fin, e, FALSE))]
    ELSE IF a.st = "raise"
    THEN [r EXCEPT !.st = "raise", !.err = a.err,
                   !.vistos = Append(r.vistos, Visto(inicio, fin, e, FALSE))]
    ELSE [r EXCEPT !.i = r.i + 1,
                   !.vistos = Append(r.vistos, Visto(inicio, fin, e, TRUE)),
                   !.modelos = Append(r.modelos,
                        Modelo(inicio, fin, a,
                               LongitudIntervalo(a, inicio, fin, NumPuntosIntervalo)))]

\* the outcomes np.polyfit can have for the choice e
AjusteDe(e) ==
    IF Len(e.puntos) <= 1 THEN {Ajuste("ok", "none", <<0, 0, 0>>, FALSE)}
    ELSE Polyfit(e.puntos, e.grado)

\* lines 248-252: the state before the loop
Antes(ord, limites) ==
    [st |-> "ok", err |-> "none", i |-> 0, ordenados |-> ord, limites |-> limites,
     vistos |-> <<>>, modelos |-> <<>>]

\* sum(modelo[3] for modelo in modelos_intervalos), from model k on
RECURSIVE SumaModelos(_, _)
SumaModelos(modelos, k) ==
    IF k > Len(modelos) THEN Zero
    ELSE RAdd(modelos[k].longitud.val, SumaModelos(modelos, k + 1))

\* longitud_intervalos of main: NaN as soon as one length is NaN
LongitudIntervalos(modelos) ==
    Medida(\E k \in 1 .. Len(modelos) : modelos[k].longitud.nan,
           SumaModelos(modelos, 1), "none")

NumsIntervalos == -2 .. 3

InitIntervalos ==
    /\ pc = "call"
    /\ op = "modelar_por_intervalos"
    /\ \E S \in SUBSET Abscisas, coef \in PolysMuestra, malo \in 0 .. 1,
          x_min \in Abscisas, x_max \in Abscisas, n \in NumsIntervalos :
         /\ Cardinality(S) <= MaxPuntos
         /\ malo <= Cardinality(S)
         /\ x_min <= x_max
         /\ args = [puntos |-> Muestras(coef, Descendente(S), malo),
                    x_min |-> x_min, x_max |-> x_max, num_intervalos |-> n]
    /\ res = Antes(<<>>, <<>>)

\* lines 248-252; np.linspace raises ValueError for a negative count
CallModelarPorIntervalos ==
    /\ pc = "call"
    /\ op = "modelar_por_intervalos"
    /\ \/ /\ args.num_intervalos + 1 < 0
          /\ res' = [res EXCEPT !.st = "raise", !.err = "ValueError"]
          /\ pc' = "done"
       \/ /\ args.num_intervalos + 1 >= 0
          /\ \E ord \in Ordenados(args.puntos, DOMAIN args.puntos) :
               res' = Antes(ord, Limites(RInt(args.x_min), RInt(args.x_max),
                                         args.num_intervalos))
          /\ pc' = "loop"
    /\ UNCHANGED <<op, args>>

\* one iteration of: for i in range(num_intervalos)
IterarIntervalo ==
    /\ pc = "loop"
    /\ op = "modelar_por_intervalos"
    /\ res.i < args.num_intervalos
    /\ \E indices \in Cercanos(res.ordenados, res.limites[res.i + 1], res.limites[res.i + 2]) :
         \E a \in AjusteDe(Eleccion(res.ordenados,
                                    Mascara(res.ordenados, res.limites[res.i + 1],
                                            res.limites[res.i + 2]),
                                    indices)) :
            res' = Iteracion(res, res.limites[res.i + 1], res.limites[res.i + 2],
                             Eleccion(res.ordenados,
                                      Mascara(res.ordenados, res.limites[res.i + 1],
                                              res.limites[res.i + 2]),
                                      indices),
                             a)
    /\ pc' = IF res'.st = "raise" THEN "done" ELSE "loop"
    /\ UNCHANGED <<op, args>>

\* return modelos
RetornarModelos ==
    /\ pc = "loop"
    /\ op = "modelar_por_intervalos"
    /\ res.i >= args.num_intervalos
    /\ pc' = "done"
    /\ UNCHANGED <<op, args, res>>

NextIntervalos == CallModelarPorIntervalos \/ IterarIntervalo \/ RetornarModelos

SpecIntervalos == InitIntervalos /\ [][NextIntervalos]_vars

---------------------------------------------------------------------------
(* Properties of modelar_por_intervalos *)

\* the loop is running or the function returned or raised in it
EnIntervalos == op = "modelar_por_intervalos" /\ pc \in {"loop", "done"}
               /\ args.num_intervalos + 1 >= 0

\* the function returned
IntervalosDone == EnIntervalos /\ pc = "done" /\ res.st = "ok"

NInt == args.num_intervalos

\* the rows of the sorted points whose x is inside [inicio, fin]
Dentro(ord, inicio, fin) ==
    {k \in 1 .. Len(ord) :
        inicio[1] <= ord[k][1] * inicio[2] /\ ord[k][1] * fin[2] <= fin[1]}

\* C14: [x_min, x_max] is cut into num_intervalos sub-intervals of equal
\* width by num_intervalos + 1 boundary values: the first sub-interval starts
\* at x_min, the last ends at x_max, sub-interval i goes from boundary i to
\* boundary i + 1, so the end of each is the start of the next.
C14_EqualWidthPartition ==
    EnIntervalos
    => /\ Len(res.limites) = NInt + 1
       /\ NInt >= 1 =>
            /\ res.limites[1] = RInt(args.x_min)
            /\ res.limites[NInt + 1] = RInt(args.x_max)
            /\ \A i \in 1 .. NInt :
                 RSub(res.limites[i + 1], res.limites[i])
                   = Rat(args.x_max - args.x_min, NInt)
       /\ \A k \in 1 .. Len(res.vistos) :
            /\ res.vistos[k].inicio = res.limites[k]
            /\ res.vistos[k].fin = res.limites[k + 1]
            /\ k > 1 => res.vistos[k].inicio = res.vistos[k - 1].fin
       /\ pc = "done" /\ res.st = "ok" => Len(res.vistos) = (IF NInt < 0 THEN 0 ELSE NInt)

\* three sub-intervals of width 2/3
C14_Witness ==
    /\ IntervalosDone /\ NInt = 3 /\ args.x_min = 1 /\ args.x_max = 3
    /\ res.vistos[2].inicio = <<5, 3>> /\ res.vistos[2].fin = <<7, 3>>

\* C15: a point is selected for sub-interval i if and only if
\* start_i <= x <= end_i; when the function returns, every point with x in
\* [x_min, x_max] was selected by at least one sub-interval, and a point
\* whose x is an interior boundary by the two sub-intervals next to it.
C15_InclusiveSelection ==
    EnIntervalos
    => /\ \A k \in 1 .. Len(res.vistos) :
            res.vistos[k].propios
              = Dentro(res.ordenados, res.vistos[k].inicio, res.vistos[k].fin)
       /\ (pc = "done" /\ res.st = "ok" /\ NInt >= 1) =>
            \A j \in 1 .. Len(res.ordenados) :
               /\ (args.x_min <= res.ordenados[j][1] /\ res.ordenados[j][1] <= args.x_max)
                    => \E k \in 1 .. NInt : j \in res.vistos[k].propios
               /\ \A k \in 1 .. (NInt - 1) :
                    RInt(res.ordenados[j][1]) = res.vistos[k].fin
                      => j \in res.vistos[k].propios /\ j \in res.vistos[k + 1].propios

\* the point at the interior boundary 1 is selected by the first and by the
\* second of three sub-intervals
C15_Witness ==
    /\ IntervalosDone /\ NInt = 3 /\ args.x_min = 0 /\ args.x_max = 3
    /\ \E j \in 1 .. Len(res.ordenados) :
         /\ res.ordenados[j][1] = 1
         /\ j \in res.vistos[1].propios /\ j \in res.vistos[2].propios
         /\ j \notin res.vistos[3].propios

\* the points of iteration v are its own
Propios(v) == ~v.prestado /\ v.puntos = Filas(res.ordenados, v.propios, 1)

\* C16 as claimed: a sub-interval with at least 4 points is fitted with
\* degree 3 on its own points, one with k = 1, 2 or 3 points with degree
\* min(k - 1, 2) on its own k points (stated here for x_min < x_max and at
\* least 3 points).
C16_Original ==
    (EnIntervalos /\ args.x_min < args.x_max /\ Len(args.puntos) >= 3)
    => \A k \in 1 .. Len(res.vistos) :
         /\ Cardinality(res.vistos[k].propios) >= 4
              => Propios(res.vistos[k]) /\ res.vistos[k].grado = 3
         /\ Cardinality(res.vistos[k].propios) \in 1 .. 3
              => /\ Propios(res.vistos[k])
                 /\ res.vistos[k].grado = MinDe(Cardinality(res.vistos[k].propios) - 1, 2)

\* C16 amended: a sub-interval with at least 4 points is fitted with degree
\* 3 on its own points, one with k = 2 or 3 points with degree k - 1 on its
\* own k points; one with a single point is not fitted on that point: it
\* borrows points as a sub-interval without points does.
C16_DegreeByCount ==
    EnIntervalos
    => \A k \in 1 .. Len(res.vistos) :
         /\ Cardinality(res.vistos[k].propios) >= 4
              => Propios(res.vistos[k]) /\ res.vistos[k].grado = 3
         /\ Cardinality(res.vistos[k].propios) \in 2 .. 3
              => /\ Propios(res.vistos[k])
                 /\ res.vistos[k].grado = Cardinality(res.vistos[k].propios) - 1
         /\ Cardinality(res.vistos[k].propios) = 1 => res.vistos[k].prestado
         /\ res.vistos[k].ajustado =>
              Len(res.modelos) >= 1 /\ Len(res.vistos[k].puntos) >= 2

\* a sub-interval with 3 of the 4 points was fitted with degree 2 on them
C16_Witness ==
    /\ IntervalosDone /\ Len(res.ordenados) = 4
    /\ \E k \in 1 .. Len(res.vistos) :
         /\ Cardinality(res.vistos[k].propios) = 3 /\ res.vistos[k].grado = 2
         /\ res.vistos[k].ajustado /\ ~res.vistos[k].prestado
         /\ Len(res.vistos[k].puntos) = 3

\* the borrowed rows of iteration v are different rows of the sorted
\* points, and no row left out is nearer to the sub-interval than one taken
MasCercanos(v) ==
    \E idx \in SUBSET (1 .. Len(res.ordenados)) :
       /\ Cardinality(idx) = Len(v.puntos)
       /\ \A j \in idx : \E m \in 1 .. Len(v.puntos) : v.puntos[m] = res.ordenados[j]
       /\ \A j \in idx, m \in (1 .. Len(res.ordenados)) \ idx :
            RLe(Distancia(res.ordenados[j][1], v.inicio, v.fin),
                Distancia(res.ordenados[m][1], v.inicio, v.fin))

\* C17 as claimed: points are borrowed only for a sub-interval without
\* points; the borrowed points are then the 4 points of the whole sequence
\* (all of them if there are fewer) nearest to the boundaries, fitted with
\* degree min(count - 1, 3) (stated here for x_min < x_max and at least 3
\* points).
C17_Original ==
    (EnIntervalos /\ args.x_min < args.x_max /\ Len(args.puntos) >= 3)
    => \A k \in 1 .. Len(res.vistos) :
         res.vistos[k].prestado
           => /\ Cardinality(res.vistos[k].propios) = 0
              /\ Len(res.vistos[k].puntos) = MinDe(4, Len(res.ordenados))
              /\ MasCercanos(res.vistos[k])
              /\ res.vistos[k].grado = MinDe(Len(res.vistos[k].puntos) - 1, 3)

\* C17 amended: points are borrowed if and only if the sub-interval holds
\* no point or a single one; the borrowed points are then the 4 points of
\* the whole sequence (all of them if there are fewer) with the smallest
\* min(|x - start|, |x - end|), fitted with degree min(count - 1, 3) when
\* there are at least 2 of them and not fitted otherwise.
C17_BorrowNearest ==
    EnIntervalos
    => \A k \in 1 .. Len(res.vistos) :
         /\ res.vistos[k].prestado <=> Cardinality(res.vistos[k].propios) <= 1
         /\ res.vistos[k].prestado
              => /\ Len(res.vistos[k].puntos) = MinDe(4, Len(res.ordenados))
                 /\ MasCercanos(res.vistos[k])
                 /\ res.vistos[k].grado = MinDe(Len(res.vistos[k].puntos) - 1, 3)
                 /\ Len(res.vistos[k].puntos) <= 1 => ~res.vistos[k].ajustado

\* the middle sub-interval holds no point and borrows the two points there
\* are, at the same distance on either side
C17_Witness ==
    /\ IntervalosDone /\ NInt = 3 /\ Len(res.ordenados) = 2
    /\ res.vistos[2].propios = {} /\ res.vistos[2].prestado
    /\ Len(res.vistos[2].puntos) = 2 /\ res.vistos[2].grado = 1
    /\ res.vistos[2].ajustado

EsRango(puntos, x_min, x_max) ==
    /\ \E k \in 1 .. Len(puntos) : puntos[k][1] = x_min
    /\ \E k \in 1 .. Len(puntos) : puntos[k][1] = x_max
    /\ \A k \in 1 .. Len(puntos) : x_min <= puntos[k][1] /\ puntos[k][1] <= x_max

\* calcular_longitud_curva(ajuste_polinomio(puntos, 3), x_min, x_max,
\* num_puntos) as main computes it, for finite points
Directa(num_puntos) ==
    {PorSegmentos(FuncionAjustada(a.coef), RInt(args.x_min), RInt(args.x_max),
                  num_puntos).val : a \in AjustePolinomio(args.puntos, 3)}

\* C19 as claimed, with the length main computes for the polynomial of the
\* whole point set (default num_puntos): with one sub-interval and at least
\* 4 points the total of the sub-intervals equals it (stated here for
\* finite points on a curve that is not a straight line, x_min and x_max
\* their range).
C19_Original ==
    (IntervalosDone /\ NInt = 1 /\ Len(args.puntos) >= 4 /\ TodasFinitas(args.puntos)
       /\ EsRango(args.puntos, args.x_min, args.x_max)
       /\ \E k \in 1 .. Len(res.modelos) : res.modelos[k].coefs[3] # 0)
    => LongitudIntervalos(res.modelos).val \in Directa(NumPuntosPorDefecto)

\* C19 amended: with one sub-interval, at least 4 finite points and x_min,
\* x_max their range, the sub-interval is fitted with degree 3 on the whole
\* point set, and the total equals the length calcular_longitud_curva gives
\* for the degree-3 polynomial of the whole point set over [x_min, x_max]
\* with num_puntos = 50.
C19_SingleIntervalIsWhole ==
    (IntervalosDone /\ NInt = 1 /\ Len(args.puntos) >= 4 /\ TodasFinitas(args.puntos)
       /\ EsRango(args.puntos, args.x_min, args.x_max))
    => /\ Len(res.modelos) = 1
       /\ res.vistos[1].puntos = res.ordenados /\ res.vistos[1].grado = 3
       /\ ~LongitudIntervalos(res.modelos).nan
       /\ Directa(NumPuntosIntervalo) = {LongitudIntervalos(res.modelos).val}

\* four points of a parabola in one sub-interval
C19_Witness ==
    /\ IntervalosDone /\ NInt = 1 /\ Len(args.puntos) = 4
    /\ TodasFinitas(args.puntos) /\ EsRango(args.puntos, args.x_min, args.x_max)
    /\ res.modelos[1].coefs = <<2, -1, 1>>
    /\ RLt(RInt(args.x_max - args.x_min), res.modelos[1].longitud.val)

---------------------------------------------------------------------------
(* Util/util.py: calcular_longitud_por_tramos and procesar_multiples_curvas *)
(* A length is kept by its kind only: "nan", "cero" (the float 0.0),       *)
(* "valor" (positive) or "negativo".                                        *)

\* num_tramos=10 of calcular_longitud_por_tramos
NumTramosPorDefecto == 10

\* n=100 of longitud_arco
NPorDefecto == 100

\* What longitud_arco needs of the callable it measures: where it raises
\* (dom, err) and whether its values are NaN
Medible(dom, err, nan) == [dom |-> dom, err |-> err, nan |-> nan]

\* a curve with finite values
DeCurva(c) == Medible(c.dom, c.err, FALSE)

\* funcion_ajustada of the fit a: np.polyval, defined everywhere
DeAjuste(a) == Medible("all", "none", a.nan)

\* the curve f that ajuste_spline returned: it extrapolates
DeInterpolante(f) == Medible("all", "none", EvaluaInterp(f, Zero) = "nan")

\* x_i = a + i * h of simpson_compuesto, h = (b - a) / n
NodoTramo(a, b, i) ==
    RAdd(a, RMul(RInt(i), RDiv(RSub(b, a), RInt(NPorDefecto))))

\* integrado evaluates funcion at x_i + h and x_i - h for every node x_i,
\* i = 0 .. n: longitud_arco raises when funcion raises at one of them
LevantaEn(f, a, b) ==
    \E i \in 0 .. NPorDefecto :
       \/ ~InDomain(f, RAdd(NodoTramo(a, b, i), RInt(H)))
       \/ ~InDomain(f, RSub(NodoTramo(a, b, i), RInt(H)))

\* the kind of the value of longitud_arco(funcion, a, b) when nothing
\* raises: (h / 3) * suma with h = (b - a) / n and suma > 0
ClaseDeLongitud(f, a, b) ==
    IF f.nan THEN "nan"
    ELSE IF a = b THEN "cero"
    ELSE IF RLt(b, a) THEN "negativo"
    ELSE "valor"

\* longitud_arco(funcion, a, b) with the defaults n=100, h=0.0001
LongitudArcoTramo(f, a, b) ==
    IF LevantaEn(f, a, b) THEN [st |-> "raise", err |-> f.err, val |-> "cero"]
    ELSE [st |-> "ok", err |-> "none", val |-> ClaseDeLongitud(f, a, b)]

\* lines 266-277: except Exception as e: print the reason;
\* longitud_tramo = 0; the row appended for tramo i
Tramo(i, a, b, l) ==
    [tramo |-> i, x_min |-> a, x_max |-> b,
     longitud |-> IF l.st = "raise" THEN "cero" ELSE l.val,
     error |-> l.err]

\* the loop of lines 262-277 over puntos_tramos
Tramos(f, puntos_tramos, num_tramos) ==
    [i \in 1 .. num_tramos |->
        Tramo(i, puntos_tramos[i], puntos_tramos[i + 1],
              LongitudArcoTramo(f, puntos_tramos[i], puntos_tramos[i + 1]))]

\* df_longitudes['longitud'].sum(): NaN as soon as one term is NaN; the
\* terms that are not 0 have the sign of x_max - x_min
LongitudTotal(tramos) ==
    IF \E k \in 1 .. Len(tramos) : tramos[k].longitud = "nan" THEN "nan"
    ELSE IF \E k \in 1 .. Len(tramos) : tramos[k].longitud = "valor" THEN "valor"
    ELSE IF \E k \in 1 .. Len(tramos) : tramos[k].longitud = "negativo" THEN "negativo"
    ELSE "cero"

\* what calcular_longitud_por_tramos returns, or the exception it raises
PorTramos(st, err, tramos) ==
    [st |-> st, err |-> err, tramos |-> tramos, total |-> LongitudTotal(tramos)]

\* calcular_longitud_por_tramos(funcion, x_min, x_max, num_tramos):
\* np.linspace raises ValueError for a negative count; with no tramo the
\* DataFrame has no column 'longitud' and the sum raises KeyError
CalcularLongitudPorTramos(f, x_min, x_max, num_tramos) ==
    IF num_tramos + 1 < 0 THEN PorTramos("raise", "ValueError", <<>>)
    ELSE IF num_tramos <= 0 THEN PorTramos("raise", "KeyError", <<>>)
    ELSE PorTramos("ok", "none",
                   Tramos(f, Linspace(x_min, x_max, num_tramos + 1), num_tramos))

\* The state of procesar_multiples_curvas: i, fase and j are the position
\* in the loops (curve i; fase "curva": before lines 437-442, "grados":
\* before the fit of grados_polinomio[j], "splines": before the fit of
\* parametros_spline[j]); resultados the list of the same name, errores
\* what the except clauses printed; origen the statement whose exception
\* left the function
Lote(st, err, origen, i, fase, j, x_min, x_max, resultados, errores) ==
    [st |-> st, err |-> err, origen |-> origen, i |-> i, fase |-> fase, j |-> j,
     x_min |-> x_min, x_max |-> x_max, resultados |-> resultados,
     errores |-> errores]

\* resultados = [] and the first curve
AntesDelLote == Lote("ok", "none", "none", 1, "curva", 1, 0, 0, <<>>, <<>>)

\* the exception e of the statement origen leaves the function
Sale(r, origen, e) == [r EXCEPT !.st = "raise", !.err = e, !.origen = origen]

\* min(puntos[:, 0]) and max(puntos[:, 0])
MinimoX(puntos) ==
    CHOOSE x \in {puntos[k][1] : k \in 1 .. Len(puntos)} :
       \A k \in 1 .. Len(puntos) : x <= puntos[k][1]
MaximoX(puntos) ==
    CHOOSE x \in {puntos[k][1] : k \in 1 .. Len(puntos)} :
       \A k \in 1 .. Len(puntos) : puntos[k][1] <= x

\* the end of the loop over the degrees, then of the loop over the spline
\* parameters, then the next curve
TrasGrados(r, ng) ==
    IF r.fase = "grados" /\ r.j > ng THEN [r EXCEPT !.fase = "splines", !.j = 1] ELSE r
TrasSplines(r, ns) ==
    IF r.fase = "splines" /\ r.j > ns
    THEN [r EXCEPT !.fase = "curva", !.j = 1, !.i = r.i + 1]
    ELSE r
Siguiente(r, ng, ns) == TrasSplines(TrasGrados(r, ng), ns)

\* lines 437-442: min and max of the abscissae raise ValueError for a
\* curve with no point; guardar_puntos_curva writes a file, disco is
\* whether the file system lets it; none of them is inside a try
Limitar(r, puntos, guardar, disco, ng, ns) ==
    IF Len(puntos) = 0 THEN Sale(r, "curva", "ValueError")
    ELSE IF guardar /\ ~disco THEN Sale(r, "curva", "OSError")
    ELSE Siguiente([r EXCEPT !.fase = "grados", !.j = 1,
                             !.x_min = MinimoX(puntos), !.x_max = MaximoX(puntos)],
                   ng, ns)

\* resultados.append({...})
Resumen(curva, tipo_ajuste, parametro, longitud, x_min, x_max) ==
    [curva |-> curva, tipo_ajuste |-> tipo_ajuste, parametro |-> parametro,
     longitud |-> longitud, x_min |-> x_min, x_max |-> x_max]

\* the body of a try of lines 452-488 or 495-534 once the curve is fitted:
\* m the outcome of calcular_longitud_por_tramos; the files are written
\* when guardar_resultados; except Exception as e: print the reason
Medir(r, tipo, parametro, m, guardar, disco) ==
    IF m.st = "raise"
    THEN [r EXCEPT !.j = r.j + 1,
                   !.errores = Append(r.errores, <<r.i, tipo, parametro, m.err>>)]
    ELSE IF guardar /\ ~disco
    THEN [r EXCEPT !.j = r.j + 1,
                   !.errores = Append(r.errores, <<r.i, tipo, parametro, "OSError">>)]
    ELSE [r EXCEPT !.j = r.j + 1,
                   !.resultados = Append(r.resultados,
                        Resumen(r.i, tipo, parametro, m.total, r.x_min, r.x_max))]

\* lines 445-488 for one degree: ajuste_polinomio is called before the try,
\* its exception leaves the function
UnidadPolinomio(r, grado, a, guardar, disco) ==
    IF a.st = "raise" THEN Sale(r, "polinomio", a.err)
    ELSE Medir(r, "polinomio", grado,
               CalcularLongitudPorTramos(DeAjuste(a), RInt(r.x_min), RInt(r.x_max),
                                         NumTramosPorDefecto),
               guardar, disco)

\* lines 491-534 for one parameter s: ajuste_spline is called inside the
\* try, its exception is printed
UnidadSpline(r, s, f, guardar, disco) ==
    IF f.st = "raise"
    THEN [r EXCEPT !.j = r.j + 1,
                   !.errores = Append(r.errores, <<r.i, "spline", s, f.err>>)]
    ELSE Medir(r, "spline", s,
               CalcularLongitudPorTramos(DeInterpolante(f), RInt(r.x_min),
                                         RInt(r.x_max), NumTramosPorDefecto),
               guardar, disco)

\* lines 537-545: the summary is written when guardar_resultados and there
\* is a result, outside any try
Resumir(r, guardar, disco) ==
    IF guardar /\ Len(r.resultados) > 0 /\ ~disco THEN Sale(r, "resumen", "OSError")
    ELSE r

\* the rows <<x, y>> of a curve for ajuste_spline: abscissae one unit apart
\* are more than epsilon apart
EnEpsilon(puntos) ==
    [k \in DOMAIN puntos |-> <<2 * Epsilon * puntos[k][1], puntos[k][2]>>]

\* what the file system can do when asked to write
Disco(guardar) == IF guardar THEN BOOLEAN ELSE {TRUE}

\* the curves of a batch: samples of x^2 at the first abscissae, one of
\* them with y = NaN or none
CurvasDelLote ==
    {Muestras(<<0, 0, 1>>, Descendente(0 .. (k - 1)), malo) :
       k \in 0 .. (MaxAbscisa + 1), malo \in 0 .. 1}

\* the degrees and spline parameters of a batch
GradosDelLote == {-1, 2}
ParametrosDelLote == {1}

InitLote ==
    /\ pc = "call"
    /\ \/ /\ op = "procesar_multiples_curvas"
          /\ \E nc \in 0 .. 2, ng \in 0 .. 2, ns \in 0 .. 1 :
               \E lista \in [1 .. nc -> CurvasDelLote],
                  grados \in [1 .. ng -> GradosDelLote],
                  params \in [1 .. ns -> ParametrosDelLote],
                  guardar \in BOOLEAN :
                 /\ \A i \in 1 .. nc, j \in 1 .. ng :
                       \/ grados[j] < 0 \/ Len(lista[i]) = 0
                       \/ ~TodasFinitas(lista[i])
                       \/ SinResiduo(<<0, 0, 1>>, Len(lista[i]), grados[j])
                 /\ args = [lista_puntos |-> lista, grados_polinomio |-> grados,
                            parametros_spline |-> params,
                            guardar_resultados |-> guardar]
          /\ res = AntesDelLote
       \/ /\ op = "calcular_longitud_por_tramos"
          /\ \E c \in AllCurves, x_min \in Coords, x_max \in Coords,
                n \in -2 .. 3 :
               args = [funcion |-> c, x_min |-> x_min, x_max |-> x_max,
                       num_tramos |-> n]
          /\ res = PorTramos("ok", "none", <<>>)

EnLote == op = "procesar_multiples_curvas"
NGrados == Len(args.grados_polinomio)
NSplines == Len(args.parametros_spline)

\* lines 426-431, the lists being given: resultados = []
CallProcesarMultiplesCurvas ==
    /\ pc = "call"
    /\ EnLote
    /\ res' = AntesDelLote
    /\ pc' = "loop"
    /\ UNCHANGED <<op, args>>

\* lines 433-442 for curve i
IniciarCurva ==
    /\ pc = "loop"
    /\ EnLote
    /\ res.fase = "curva"
    /\ res.i <= Len(args.lista_puntos)
    /\ \E disco \in Disco(args.guardar_resultados) :
         res' = Limitar(res, args.lista_puntos[res.i], args.guardar_resultados,
                        disco, NGrados, NSplines)
    /\ pc' = IF res'.st = "raise" THEN "done" ELSE "loop"
    /\ UNCHANGED <<op, args>>

\* one iteration of: for grado in grados_polinomio
AjustarPolinomio ==
    /\ pc = "loop"
    /\ EnLote
    /\ res.fase = "grados"
    /\ \E a \in AjustePolinomio(args.lista_puntos[res.i],
                                args.grados_polinomio[res.j]),
          disco \in Disco(args.guardar_resultados) :
         res' = Siguiente(UnidadPolinomio(res, args.grados_polinomio[res.j], a,
                                          args.guardar_resultados, disco),
                          NGrados, NSplines)
    /\ pc' = IF res'.st = "raise" THEN "done" ELSE "loop"
    /\ UNCHANGED <<op, args>>

\* one iteration of: for s in parametros_spline; UnivariateSpline can raise
\* when it is called, with 4 filtered points or more
AjustarSpline ==
    /\ pc = "loop"
    /\ EnLote
    /\ res.fase = "splines"
    /\ \E ord \in Ordenados(EnEpsilon(args.lista_puntos[res.i]),
                            DOMAIN args.lista_puntos[res.i]),
          falla \in BOOLEAN,
          disco \in Disco(args.guardar_resultados) :
         /\ falla => Len(Procesado(ord).x) >= 4
         /\ res' = Siguiente(UnidadSpline(res, args.parametros_spline[res.j],
                                          AjusteSpline(ord, falla),
                                          args.guardar_resultados, disco),
                             NGrados, NSplines)
    /\ pc' = "loop"
    /\ UNCHANGED <<op, args>>

\* lines 537-545 after the last curve
RetornarResumen ==
    /\ pc = "loop"
    /\ EnLote
    /\ res.fase = "curva"
    /\ res.i > Len(args.lista_puntos)
    /\ \E disco \in Disco(args.guardar_resultados) :
         res' = Resumir(res, args.guardar_resultados, disco)
    /\ pc' = "done"
    /\ UNCHANGED <<op, args>>

\* calcular_longitud_por_tramos called on its own
CallCalcularLongitudPorTramos ==
    /\ pc = "call"
    /\ op = "calcular_longitud_por_tramos"
    /\ res' = CalcularLongitudPorTramos(DeCurva(args.funcion), RInt(args.x_min),
                                        RInt(args.x_max), args.num_tramos)
    /\ pc' = "done"
    /\ UNCHANGED <<op, args>>

NextLote ==
    \/ CallProcesarMultiplesCurvas
    \/ IniciarCurva
    \/ AjustarPolinomio
    \/ AjustarSpline
    \/ RetornarResumen
    \/ CallCalcularLongitudPorTramos

SpecLote == InitLote /\ [][NextLote]_vars

---------------------------------------------------------------------------
(* Properties of the batch *)

LoteDone == EnLote /\ pc = "done"

\* the (curve, degree) and (curve, spline parameter) units of the batch
NumUnidades == Len(args.lista_puntos) * (NGrados + NSplines)

\* C20: in procesar_multiples_curvas a failure while fitting or measuring
\* one (curve, polynomial degree) or (curve, spline parameter) unit is
\* logged and skipped: no exception of a unit leaves the function, every
\* unit of every curve is either in the summary or in the log, and the
\* function returns.  (Failures outside the units, the bounds of an empty
\* curve and the writing of the points and of the summary, are set aside.)
C20_FailedUnitSkipped ==
    (LoteDone /\ res.origen \notin {"curva", "resumen"})
    => /\ res.st = "ok"
       /\ Len(res.resultados) + Len(res.errores) = NumUnidades

\* a tramo on which the curve raises contributes 0 and the other tramos
\* are measured
TramoFallidoContenido ==
    (op = "calcular_longitud_por_tramos" /\ pc = "done" /\ args.num_tramos >= 1)
    => /\ res.st = "ok"
       /\ Len(res.tramos) = args.num_tramos
       /\ \A k \in 1 .. Len(res.tramos) :
            res.tramos[k].error # "none" => res.tramos[k].longitud = "cero"

---------------------------------------------------------------------------
(* Specification of derivada_numerica *)

\* the points at which derivada_numerica evaluates f, in the order of the
\* evaluations: x + h, then x - h unless f(x + h) raised
EvaluadosPorDerivada(c, x, h) ==
    IF EvalCurve(c, RAdd(x, h)).st # "ok" THEN <<RAdd(x, h)>>
    ELSE <<RAdd(x, h), RSub(x, h)>>

\* the outcome of derivada_numerica and the evaluations of f it made
Derivada(out, evaluados) ==
    [st |-> out.st, val |-> out.val, err |-> out.err, evaluados |-> evaluados]

\* the points x and the steps h: the halves within the coordinates
Mitades == {Rat(p, q) : p \in Coords, q \in 1 .. 2}

InitDerivada ==
    /\ pc = "call"
    /\ op = "derivada_numerica"
    /\ \E c \in AllCurves, x \in Mitades, h \in Mitades :
         args = [funcion |-> c, x |-> x, h |-> h]
    /\ res = Derivada(Ok(Zero), <<>>)

\* derivada_numerica(f, x, h)
CallDerivadaNumerica ==
    /\ pc = "call"
    /\ op = "derivada_numerica"
    /\ res' = Derivada(DerivadaNumerica(args.funcion, args.x, args.h),
                       EvaluadosPorDerivada(args.funcion, args.x, args.h))
    /\ pc' = "done"
    /\ UNCHANGED <<op, args>>

NextDerivada == CallDerivadaNumerica

SpecDerivada == InitDerivada /\ [][NextDerivada]_vars

---------------------------------------------------------------------------
(* Properties of derivada_numerica *)

DerivadaDone == op = "derivada_numerica" /\ pc = "done"

EsCuadrado(c) == c.coef = <<0, 0, 1>> /\ c.dom = "all"

\* C21: derivada_numerica(f, x, h) evaluates f at x + h and at x - h and
\* nowhere else, and what it returns times 2h is f(x + h) - f(x - h); for
\* f(x) = x^2 and every h # 0 it returns, and returns 2x.
C21_CentralDifference ==
    DerivadaDone
    => /\ res.st = "ok"
          => /\ res.evaluados = <<RAdd(args.x, args.h), RSub(args.x, args.h)>>
             /\ args.h # Zero
             /\ RMul(res.val, RMul(RInt(2), args.h))
                  = RSub(PolyVal(args.funcion.coef, RAdd(args.x, args.h)),
                         PolyVal(args.funcion.coef, RSub(args.x, args.h)))
       /\ (EsCuadrado(args.funcion) /\ args.h # Zero)
          => res.st = "ok" /\ res.val = RMul(RInt(2), args.x)

\* the derivative of x^2 at a point x # 0 that is not an integer, with a
\* negative step
C21_Witness ==
    /\ DerivadaDone /\ EsCuadrado(args.funcion)
    /\ RLt(args.h, Zero) /\ args.x[2] = 2
    /\ res.st = "ok" /\ res.val = RInt(args.x[1])

---------------------------------------------------------------------------
(* Script_prueba.py, lines 29-40: simpson_compuesto in floating point.     *)
(* A float is a rational with at most p significant binary digits; every   *)
(* operation rounds its exact result to the nearest float, ties to the     *)
(* even significand.  The program runs with p = 53, the model with the     *)
(* precisions of Precisiones.                                               *)

\* largest number of significant binary digits of a float of the model
MaxPrecision == 8
\* largest number of pairs of subintervals: n = 2, 4, .., 2 * MaxPares
MaxPares == 6
\* largest number n of subintervals of a length computed in floating point
MaxSubintervalos == 6
\* largest number of worker threads the image panel starts
MaxHilos == 3

\* x * 2^e for x > 0, without forming a product that the quotient undoes
PorDos(x, e) ==
    IF e >= 0
    THEN <<x[1] * ((2 ^ e) \div GCD(x[2], 2 ^ e)), x[2] \div GCD(x[2], 2 ^ e)>>
    ELSE <<x[1] \div GCD(x[1], 2 ^ (-e)), x[2] * ((2 ^ (-e)) \div GCD(x[1], 2 ^ (-e)))>>

\* floor(log2(k)) for an integer k >= 1
Log2(k) == CHOOSE e \in 0 .. 29 : 2 ^ e <= k /\ k < 2 * (2 ^ e)

\* for x > 0, the exponent e with 2^(p-1) <= x / 2^e < 2^p, searched from e
RECURSIVE ExponenteDesde(_, _, _)
ExponenteDesde(x, p, e) ==
    IF RLe(RInt(2 ^ p), PorDos(x, -e)) THEN ExponenteDesde(x, p, e + 1)
    ELSE IF RLt(PorDos(x, -e), RInt(2 ^ (p - 1))) THEN ExponenteDesde(x, p, e - 1)
    ELSE e

\* the exponent of the float nearest to x > 0; the logarithms of the
\* numerator and of the denominator give it within one
ExponenteDe(x, p) == ExponenteDesde(x, p, Log2(x[1]) - Log2(x[2]) - (p - 1))

\* the integer nearest to q >= 0, the even one of two equally near
Cercano(q) ==
    IF 2 * (q[1] % q[2]) > q[2]
         \/ (2 * (q[1] % q[2]) = q[2] /\ (q[1] \div q[2]) % 2 = 1)
    THEN (q[1] \div q[2]) + 1
    ELSE q[1] \div q[2]

\* x > 0 rounded to a multiple of 2^e
RedondearEn(x, e) == PorDos(RInt(Cercano(PorDos(x, -e))), e)

\* the float nearest to x; p = 0 stands for exact arithmetic, which
\* rounds nothing
Redondear(x, p) ==
    IF p = 0 \/ x[1] = 0 THEN x
    ELSE IF x[1] < 0
    THEN RSub(Zero, RedondearEn(RSub(Zero, x), ExponenteDe(RSub(Zero, x), p)))
    ELSE RedondearEn(x, ExponenteDe(x, p))

\* funcion_integral(x): x**2
FuncionIntegral(x, p) == Redondear(RMul(x, x), p)

\* h = (b - a) / n
PasoRedondeado(a, b, n, p) == Redondear(RDiv(RSub(b, a), RInt(n)), p)

\* x_i = a + i * h
NodoRedondeado(a, h, i, p) ==
    Redondear(RAdd(a, Redondear(RMul(RInt(i), h), p)), p)

\* suma += w * f(x_i)
SumaRedondeada(suma, w, y, p) ==
    Redondear(RAdd(suma, Redondear(RMul(RInt(w), y), p)), p)

\* variant with the factor of the trapezoid rule
ResultadoRedondeadoMitad(h, suma, p) ==
    Redondear(RMul(Redondear(RDiv(h, RInt(2)), p), suma), p)

\* resultado = (h / 3) * suma
ResultadoRedondeado(h, suma, p) ==
    Redondear(RMul(Redondear(RDiv(h, RInt(3)), p), suma), p)

\* resultado_analitico = (b**3 - a**3) / 3
ResultadoAnalitico(a, b, p) == Redondear(Rat(b * b * b - a * a * a, 3), p)

\* abs(resultado_numerico - resultado_analitico)
ErrorDe(numerico, analitico, p) == Redondear(RAbs(RSub(numerico, analitico)), p)

\* the precisions of the floats, and exact arithmetic
Precisiones == {0} \cup (6 .. MaxPrecision)

\* The state of the test: numericos and errores are the results of
\* simpson_compuesto and the errors printed for n = 2, 4, ..; n, h, suma
\* and i are the variables of the run of simpson_compuesto under way,
\* bucle the loop it is in ("impares": line 43, "pares": line 48)
Prueba(numericos, errores, n, h, suma, bucle, i) ==
    [numericos |-> numericos, errores |-> errores, n |-> n, h |-> h,
     suma |-> suma, bucle |-> bucle, i |-> i]

\* the end of the loop over the odd indices
TrasImpares(r) ==
    IF r.bucle = "impares" /\ r.i >= RangoHasta(r.n)
    THEN [r EXCEPT !.bucle = "pares", !.i = 2]
    ELSE r

\* the weight of the loop
PesoDe(bucle) == IF bucle = "impares" THEN 4 ELSE 2

InitPrueba ==
    /\ pc = "call"
    /\ op = "Script_prueba"
    /\ \E a \in Abscisas, b \in Abscisas, p \in Precisiones :
         /\ a < b
         /\ args = [a |-> a, b |-> b, precision |-> p]
    /\ res = Prueba(<<>>, <<>>, 0, Zero, Zero, "impares", 1)

\* lines 33-40 of simpson_compuesto for the next even n: h and
\* suma = f(a) + f(b)
IniciarSimpson ==
    /\ pc = "call"
    /\ op = "Script_prueba"
    /\ Len(res.errores) < MaxPares
    /\ res' = TrasImpares(
                 Prueba(res.numericos, res.errores,
                        NUsado(2 * (Len(res.errores) + 1)),
                        PasoRedondeado(RInt(args.a), RInt(args.b),
                                       NUsado(2 * (Len(res.errores) + 1)),
                                       args.precision),
                        Redondear(RAdd(FuncionIntegral(RInt(args.a), args.precision),
                                       FuncionIntegral(RInt(args.b), args.precision)),
                                  args.precision),
                        "impares", 1))
    /\ pc' = "loop"
    /\ UNCHANGED <<op, args>>

\* one iteration of the loop of line 43 or of the loop of line 48
SumarTermino ==
    /\ pc = "loop"
    /\ op = "Script_prueba"
    /\ res.i < RangoHasta(res.n)
    /\ res' = TrasImpares(
                 [res EXCEPT !.i = res.i + 2,
                             !.suma = SumaRedondeada(res.suma, PesoDe(res.bucle),
                                         FuncionIntegral(
                                            NodoRedondeado(RInt(args.a), res.h, res.i,
                                                           args.precision),
                                            args.precision),
                                         args.precision)])
    /\ UNCHANGED <<pc, op, args>>

\* lines 54-57 of simpson_compuesto, then the error of Script_prueba.py,
\* line 40
TerminarSimpson ==
    /\ pc = "loop"
    /\ op = "Script_prueba"
    /\ res.bucle = "pares"
    /\ res.i >= RangoHasta(res.n)
    /\ res' = [res EXCEPT
                 !.numericos = Append(res.numericos,
                                      ResultadoRedondeado(res.h, res.suma, args.precision)),
                 !.errores = Append(res.errores,
                                ErrorDe(ResultadoRedondeado(res.h, res.suma, args.precision),
                                        ResultadoAnalitico(args.a, args.b, args.precision),
                                        args.precision))]
    /\ pc' = "call"
    /\ UNCHANGED <<op, args>>

NextPrueba == IniciarSimpson \/ SumarTermino \/ TerminarSimpson

SpecPrueba == InitPrueba /\ [][NextPrueba]_vars

---------------------------------------------------------------------------
(* Properties of the integration test *)

EnPrueba == op = "Script_prueba"

DeCeroATres == EnPrueba /\ args.a = 0 /\ args.b = 3

C22_WitnessExacto ==
    /\ DeCeroATres /\ args.precision = 0 /\ Len(res.numericos) >= 5
    /\ res.numericos[5] = RInt(9)

---------------------------------------------------------------------------
(* ajuste_curva.py: the curves returned and the array they were fitted     *)
(* from.  args.puntos is the array of the caller, which the caller can     *)
(* change after the fit; a curve is kept with what it holds: vista is      *)
(* whether it reads the array of the caller when it is evaluated, propio   *)
(* the data it owns.                                                        *)

\* variant whose closure keeps the views x, y of puntos and fits them when
\* it is called
CierreSobreVistas(a) == [vista |-> TRUE, tipo |-> "polinomio", propio |-> a]

\* funcion_ajustada: the closure holds coeficientes, the array np.polyfit
\* returned, and nothing of puntos
Cierre(a) == [vista |-> FALSE, tipo |-> "polinomio", propio |-> a]

\* the interpolant or spline built on x_procesado, y_procesado: arrays made
\* by np.array from lists of the elements of a copy of puntos
Objeto(f) == [vista |-> FALSE, tipo |-> f.tipo, propio |-> f]

\* np.polyval(coeficientes, x_val) for the outcome a of np.polyfit
ValorDelAjuste(a, x) ==
    IF a.st = "raise" THEN <<"raise", a.err>>
    ELSE IF a.nan THEN <<"nan">>
    ELSE <<"valor", PolyVal(a.coef, RInt(x))>>

\* f(x) for an interpolant or spline f: a value determined by the kind of f
\* and the arrays it was built on (NaN for a linear interpolant on a single
\* point)
ValorDelInterpolante(f, x) ==
    IF EvaluaInterp(f, x) = "nan" THEN <<"nan">>
    ELSE <<"valor", f.tipo, f.x, f.y, x>>

\* curva(x) when the array of the caller is puntos
ValorEn(curva, puntos, grado, x) ==
    IF curva.tipo = "polinomio"
    THEN ValorDelAjuste(IF curva.vista
                        THEN CHOOSE a \in Polyfit(puntos, grado) : TRUE
                        ELSE curva.propio,
                        x)
    ELSE ValorDelInterpolante(curva.propio, x)

\* curva(np.array([0, 1, 2]))
Valores(curva, puntos, grado) ==
    [k \in 1 .. 3 |-> ValorEn(curva, puntos, grado, k - 1)]

\* what the caller does to its array after the fit: puntos[:, 1] = the
\* ordinates of another curve, puntos[:] = puntos[::-1], or no row left
Mutaciones(puntos) ==
    {[k \in DOMAIN puntos |->
         <<puntos[k][1], c[1] + c[2] * puntos[k][1] + c[3] * puntos[k][1] * puntos[k][1],
           puntos[k][3]>>] : c \in PolysMuestra}
    \cup {[k \in DOMAIN puntos |-> puntos[Len(puntos) + 1 - k]]}
    \cup {<<>>}

\* The state of a caller that fits a curve, evaluates it and changes its
\* array: curva is the curve returned, original the array at the time of
\* the fit, mutaciones the number of changes made since, valores the
\* results of the evaluations with the number of changes before each
Marco(st, err, curva, original, mutaciones, valores) ==
    [st |-> st, err |-> err, curva |-> curva, original |-> original,
     mutaciones |-> mutaciones, valores |-> valores]

SinCurva == [vista |-> FALSE, tipo |-> "none", propio |-> <<>>]

InitMarco ==
    /\ pc = "call"
    /\ op \in {"ajuste_polinomio", "ajuste_spline"}
    /\ \E S \in SUBSET Abscisas, coef \in PolysMuestra, malo \in 0 .. 1,
          grado \in 1 .. 3 :
         /\ S # {}
         /\ malo # 0 \/ SinResiduo(coef, Cardinality(S), grado)
         /\ op = "ajuste_spline" => grado = 3
         /\ args = [puntos |-> Muestras(coef, Descendente(S), malo), grado |-> grado]
    /\ res = Marco("ok", "none", SinCurva, <<>>, 0, <<>>)

\* curva = ajuste_polinomio(puntos, grado)
AjustarPolinomioDelMarco ==
    /\ pc = "call"
    /\ op = "ajuste_polinomio"
    /\ \E a \in AjustePolinomio(args.puntos, args.grado) :
         /\ res' = IF a.st = "raise"
                   THEN Marco("raise", a.err, SinCurva, args.puntos, 0, <<>>)
                   ELSE Marco("ok", "none", Cierre(a), args.puntos, 0, <<>>)
         /\ pc' = IF a.st = "raise" THEN "done" ELSE "curva"
    /\ UNCHANGED <<op, args>>

\* curva = ajuste_spline(puntos)
AjustarSplineDelMarco ==
    /\ pc = "call"
    /\ op = "ajuste_spline"
    /\ \E ord \in Ordenados(EnEpsilon(args.puntos), DOMAIN args.puntos),
          falla \in BOOLEAN :
         /\ falla => Len(Procesado(ord).x) >= 4
         /\ res' = Marco("ok", "none", Objeto(AjusteSpline(ord, falla)),
                         args.puntos, 0, <<>>)
    /\ pc' = "curva"
    /\ UNCHANGED <<op, args>>

\* the caller evaluates the curve, once before it changes the array and
\* once after each change
EvaluarCurva ==
    /\ pc = "curva"
    /\ \A k \in 1 .. Len(res.valores) : res.valores[k].mutaciones # res.mutaciones
    /\ res' = [res EXCEPT !.valores =
                 Append(res.valores,
                        [mutaciones |-> res.mutaciones,
                         y |-> Valores(res.curva, args.puntos, args.grado)])]
    /\ UNCHANGED <<pc, op, args>>

\* the caller changes its array
MutarPuntos ==
    /\ pc = "curva"
    /\ res.mutaciones < 2
    /\ \E nuevos \in Mutaciones(args.puntos) :
         /\ nuevos # args.puntos
         /\ args' = [args EXCEPT !.puntos = nuevos]
    /\ res' = [res EXCEPT !.mutaciones = res.mutaciones + 1]
    /\ UNCHANGED <<pc, op>>

NextMarco ==
    \/ AjustarPolinomioDelMarco
    \/ AjustarSplineDelMarco
    \/ EvaluarCurva
    \/ MutarPuntos

SpecMarco == InitMarco /\ [][NextMarco]_vars

---------------------------------------------------------------------------
(* Properties of the curves returned *)

\* C23: a curve returned by ajuste_polinomio or ajuste_spline does not
\* observe later changes of the array it was fitted from: every evaluation,
\* before or after the caller modifies, reorders or empties the array,
\* gives the values the curve gave, or would have given, on the array of
\* the fit.
C23_CurveIsSnapshot ==
    pc = "curva"
    => \A k \in 1 .. Len(res.valores) :
          /\ res.valores[k].y = Valores([res.curva EXCEPT !.vista = FALSE],
                                        res.original, args.grado)
          /\ res.valores[k].y = res.valores[1].y

\* a polynomial evaluated before and after its array was given other
\* ordinates and then emptied
C23_Witness ==
    /\ pc = "curva" /\ op = "ajuste_polinomio"
    /\ res.mutaciones = 2 /\ args.puntos = <<>> /\ Len(res.original) >= 3
    /\ Len(res.valores) = 3
    /\ res.valores[3].mutaciones = 2
    /\ res.valores[3].y[3] = <<"valor", RInt(4)>>

\* a spline evaluated before and after its array was reordered
C23_WitnessSpline ==
    /\ pc = "curva" /\ op = "ajuste_spline" /\ res.curva.tipo = "spline"
    /\ res.mutaciones = 1 /\ Len(args.puntos) = Len(res.original)
    /\ args.puntos # res.original
    /\ Len(res.valores) = 2

---------------------------------------------------------------------------
(* Termination of the core computations: the steps of simpson_compuesto,  *)
(* of the length estimators, of modelar_por_intervalos, of                 *)
(* calcular_longitud_por_tramos and procesar_multiples_curvas and of the   *)
(* integration test, together.  A function that was called keeps           *)
(* running: the interpreter executes its next statement as long as there   *)
(* is one, which is weak fairness of the steps.                             *)

\* the curves measured: x^2, and x^2 where it raises below 0
CurvasDeTermina ==
    {Curve(<<0, 0, 1>>, "all", "ValueError", "ok"),
     Curve(<<0, 0, 1>>, "ge0", "ValueError", "ok")}

\* every count, on curves and points that make every loop run and every
\* exit be taken
InitTermina ==
    /\ pc = "call"
    /\ \/ /\ op = "simpson_compuesto"
          /\ \E c \in CurvasDeTermina, a \in {-1, 0}, n \in Counts :
               args = [f |-> FCurve(c), a |-> a, b |-> 1, n |-> n]
          /\ res = Acc0
       \/ /\ op \in {"longitud_arco", "calcular_longitud_curva",
                     "Demo2.calcular_longitud_curva"}
          /\ \E c \in CurvasDeTermina, a \in {-1, 0}, n \in Counts :
               args = [funcion |-> c, x_min |-> a, x_max |-> 1, num_puntos |-> n,
                       usar |-> (op # "Demo2.calcular_longitud_curva")]
          /\ res = Longitud("ok", Zero, "none", "none", FALSE)
       \/ /\ op = "modelar_por_intervalos"
          /\ \E k \in 0 .. (MaxAbscisa + 1), malo \in 0 .. 1, n \in NumsIntervalos :
               /\ malo <= k
               /\ args = [puntos |-> Muestras(<<0, 0, 1>>, Descendente(0 .. (k - 1)), malo),
                          x_min |-> 0, x_max |-> MaxAbscisa, num_intervalos |-> n]
          /\ res = Antes(<<>>, <<>>)
       \/ /\ op = "calcular_longitud_por_tramos"
          /\ \E c \in CurvasDeTermina, a \in {-1, 0}, n \in -2 .. 3 :
               args = [funcion |-> c, x_min |-> a, x_max |-> 1, num_tramos |-> n]
          /\ res = PorTramos("ok", "none", <<>>)
       \/ /\ op = "procesar_multiples_curvas"
          /\ \E nc \in 0 .. 2, k \in {0, 3}, malo \in 0 .. 1, grado \in GradosDelLote,
                guardar \in BOOLEAN :
               /\ malo <= k
               /\ args = [lista_puntos |->
                             [i \in 1 .. nc |->
                                 Muestras(<<0, 0, 1>>, Descendente(0 .. (k - 1)), malo)],
                          grados_polinomio |-> <<2, grado>>,
                          parametros_spline |-> <<1>>,
                          guardar_resultados |-> guardar]
          /\ res = AntesDelLote
       \/ /\ op = "Script_prueba"
          /\ \E p \in Precisiones : args = [a |-> 0, b |-> 3, precision |-> p]
          /\ res = Prueba(<<>>, <<>>, 0, Zero, Zero, "impares", 1)

NextTermina ==
    NextSimpson \/ NextLongitud \/ NextIntervalos \/ NextLote \/ NextPrueba

\* the computation has returned or raised; the integration test has run
\* simpson_compuesto for every n
Terminado ==
    \/ pc = "done"
    \/ op = "Script_prueba" /\ pc = "call" /\ Len(res.errores) = MaxPares

\* a statement remains to be executed: a step of NextTermina is possible
EnCurso == ~Terminado

\* weak fairness of the steps, WF_vars(NextTermina), with the enabling
\* condition of a step written as the state predicate EnCurso
PasosJustos == []<>(~EnCurso) \/ []<><<NextTermina>>_vars

SpecTermina == InitTermina /\ [][NextTermina]_vars /\ PasosJustos

\* steps are taken only while the computation is under way
SoloEnCurso == [][EnCurso]_vars

\* the largest number of evaluations of the integrand for the count n: the
\* n' + 1 nodes, the two ends when n' <= 0
MaxEvaluaciones(n) == IF NUsado(n) >= 2 THEN NUsado(n) + 1 ELSE 2

\* the number of iterations a range(n) makes
Vueltas(n) == IF n < 0 THEN 0 ELSE n

\* the evaluations and iterations made so far are within the counts
Acotado ==
    /\ SimpsonDone => Len(res.evals) <= MaxEvaluaciones(args.n)
    /\ op = "modelar_por_intervalos"
         => /\ res.i <= Vueltas(args.num_intervalos)
            /\ Len(res.vistos) <= Vueltas(args.num_intervalos)
            /\ Len(res.modelos) <= Len(res.vistos)
    /\ (op = "calcular_longitud_por_tramos" /\ pc = "done")
         => Len(res.tramos) <= Vueltas(args.num_tramos)
    /\ op = "procesar_multiples_curvas"
         => /\ res.i <= Len(args.lista_puntos) + 1
            /\ Len(res.resultados) + Len(res.errores) <= NumUnidades
    /\ (op = "Script_prueba" /\ pc = "loop")
         => /\ res.i <= res.n + 1
            /\ res.n <= 2 * MaxPares

\* C24: every core computation terminates for every choice of the sample
\* counts, and the evaluations and loop iterations it makes are bounded by
\* the counts: at most n' + 1 nodes in simpson_compuesto (the two ends when
\* n' <= 0), num_intervalos sub-intervals in modelar_por_intervalos,
\* num_tramos tramos in calcular_longitud_por_tramos.
C24_Terminates == <>Terminado /\ []Acotado

\* modelar_por_intervalos has returned after three sub-intervals
C24_Witness ==
    /\ op = "modelar_por_intervalos" /\ pc = "done" /\ res.st = "ok"
    /\ args.num_intervalos = 3 /\ Len(res.vistos) = 3

---------------------------------------------------------------------------
(* ajuste_curva.py, lines 5-25: ajuste_polinomio with grado = 3 on the     *)
(* samples of a cubic.  The rows are <<x, y, finito>> with integer x and   *)
(* at least four distinct x; the coefficients are kept as np.polyfit       *)
(* returns them, highest power first, <<c3, c2, c1, c0>>.                  *)

\* the cubics sampled, highest power first
CubicasMuestra == {<<1, 0, 0, 0>>, <<-1, 0, 2, 1>>, <<2, -1, 0, -3>>}

\* np.polyval(coeficientes, x): Horner's rule from the highest power
Polyval(coeficientes, x) ==
    ((coeficientes[1] * x + coeficientes[2]) * x + coeficientes[3]) * x
        + coeficientes[4]

\* the rows of the samples of the cubic c at the abscissae xs
MuestrasCubicas(c, xs) == [k \in DOMAIN xs |-> <<xs[k], Polyval(c, xs[k]), TRUE>>]

\* the sequences of four or five abscissae with at least four distinct ones
AbscisasCubicas ==
    {xs \in [1 .. 4 -> Abscisas] \cup [1 .. 5 -> Abscisas] :
        Cardinality({xs[k] : k \in DOMAIN xs}) >= 4}

\* four rows of pairwise distinct x
CuatroFilas(rows) ==
    CHOOSE q \in [1 .. 4 -> DOMAIN rows] :
        /\ \A i \in 1 .. 3 : q[i] < q[i + 1]
        /\ \A i, j \in 1 .. 4 : i # j => rows[q[i]][1] # rows[q[j]][1]

\* the second divided difference of rows r, s, t
Segunda(r, s, t) == (Pendiente(s, t) - Pendiente(r, s)) \div (t[1] - r[1])

\* the third divided difference of rows r, s, t, u
Tercera(r, s, t, u) == (Segunda(s, t, u) - Segunda(r, s, t)) \div (u[1] - r[1])

\* variant that returns the coefficients lowest power first
CubicaAlReves(r, s, t, u) ==
    LET d1 == Pendiente(r, s)
        d2 == Segunda(r, s, t)
        d3 == Tercera(r, s, t, u)
    IN  <<r[2] - d1 * r[1] + d2 * r[1] * s[1] - d3 * r[1] * s[1] * t[1],
          d1 - d2 * (r[1] + s[1]) + d3 * (r[1] * s[1] + r[1] * t[1] + s[1] * t[1]),
          d2 - d3 * (r[1] + s[1] + t[1]),
          d3>>

\* the cubic through rows r, s, t, u, from its Newton form
\* d0 + d1 (x - r.x) + d2 (x - r.x)(x - s.x) + d3 (x - r.x)(x - s.x)(x - t.x)
Cubica(r, s, t, u) ==
    LET d1 == Pendiente(r, s)
        d2 == Segunda(r, s, t)
        d3 == Tercera(r, s, t, u)
    IN  <<d3,
          d2 - d3 * (r[1] + s[1] + t[1]),
          d1 - d2 * (r[1] + s[1]) + d3 * (r[1] * s[1] + r[1] * t[1] + s[1] * t[1]),
          r[2] - d1 * r[1] + d2 * r[1] * s[1] - d3 * r[1] * s[1] * t[1]>>

\* np.polyfit(x, y, 3) for rows with no residual and four distinct x: the
\* least squares have one solution, the cubic through the rows
PolyfitCubico(rows) ==
    LET q == CuatroFilas(rows)
    IN  Cubica(rows[q[1]], rows[q[2]], rows[q[3]], rows[q[4]])

\* the closure returned by ajuste_polinomio and the values it has returned,
\* by the index of the row whose x it was called with (0 entries at first)
Ajustada(coeficientes, valores) == [coeficientes |-> coeficientes, valores |-> valores]

InitCubica ==
    /\ pc = "call"
    /\ op = "ajuste_polinomio"
    /\ \E c \in CubicasMuestra, xs \in AbscisasCubicas :
         args = [puntos |-> MuestrasCubicas(c, xs), grado |-> 3, cubica |-> c]
    /\ res = Ajustada(<<0, 0, 0, 0>>, <<>>)

\* ajuste_polinomio(puntos, 3), lines 16-25
CallAjustePolinomioCubico ==
    /\ pc = "call"
    /\ op = "ajuste_polinomio"
    /\ res' = Ajustada(PolyfitCubico(args.puntos), <<>>)
    /\ pc' = "curva"
    /\ UNCHANGED <<op, args>>

\* funcion_ajustada(x_val), lines 23-24, at the x of the next row of puntos
EvaluarAjustada ==
    /\ pc = "curva"
    /\ op = "ajuste_polinomio"
    /\ Len(res.valores) < Len(args.puntos)
    /\ res' = [res EXCEPT !.valores =
                  Append(@, Polyval(res.coeficientes,
                                    args.puntos[Len(res.valores) + 1][1]))]
    /\ UNCHANGED <<pc, op, args>>

NextCubica == CallAjustePolinomioCubico \/ EvaluarAjustada

SpecCubica == InitCubica /\ [][NextCubica]_vars

---------------------------------------------------------------------------
(* Claim about the round trip of the cubic fit *)

\* C25: ajuste_polinomio with degree 3 on points sampled exactly from a
\* cubic returns a curve whose values at the original x coordinates equal
\* the original y values, and the coefficients are those of the cubic.
C25_CubicRoundTrip ==
    (pc = "curva" /\ op = "ajuste_polinomio" /\ args.grado = 3)
    => /\ \A k \in 1 .. Len(res.valores) : res.valores[k] = args.puntos[k][2]
       /\ res.coeficientes = args.cubica

\* the curve fitted to five samples of 2x^3 - x^2 - 3, one abscissa twice,
\* has been evaluated at every original x
C25_Witness ==
    /\ pc = "curva" /\ op = "ajuste_polinomio"
    /\ args.cubica = <<2, -1, 0, -3>>
    /\ Len(args.puntos) = 5 /\ Len(res.valores) = 5
    /\ args.puntos[1][1] = args.puntos[5][1]
    /\ res.valores[5] = args.puntos[5][2]
---------------------------------------------------------------------------
(* Util/util.py: guardar_modelo_funcion, cargar_modelo_funcion and         *)
(* reconstruir_funcion.  A dict is a function from its keys; the pickle    *)
(* file is the sequence of the <<key, value>> items of the dict, in the    *)
(* order the keys were inserted, the dict of 'parametros' inside it as     *)
(* the sequence of its own items.                                          *)

\* the keys of the dicts, in the order the code inserts them
Claves ==
    <<"tipo_funcion", "parametros", "fecha_creacion", "grado", "s", "x_min",
      "x_max", "coeficientes">>

\* the items of the dict d
Items(d) ==
    LET ks == SelectSeq(Claves, LAMBDA k : k \in DOMAIN d)
    IN  [i \in 1 .. Len(ks) |-> <<ks[i], d[ks[i]]>>]

\* the dict of the items s
DeItems(s) ==
    [k \in {s[i][1] : i \in DOMAIN s} |->
        s[CHOOSE i \in DOMAIN s : s[i][1] = k][2]]

\* pickle.dump(info_modelo, f), line 100
Volcar(info_modelo) ==
    Items([info_modelo EXCEPT !["parametros"] = Items(@)])

\* pickle.load(f), line 132
Cargar(s) == [DeItems(s) EXCEPT !["parametros"] = DeItems(@)]

\* isinstance(value, (int, float, str)), line 110: every parameter but the
\* array of coefficients
EsEscalar(key) == key # "coeficientes"

\* the row of the CSV summary, lines 103-111
ResumenCsv(tipo_funcion, fecha, params) ==
    Items([tipo_funcion |-> tipo_funcion, fecha_creacion |-> fecha])
        \o SelectSeq(Items(params), LAMBDA it : EsEscalar(it[1]))

\* datetime.now().strftime(...), line 88
Fecha == "2026-01-01 00:00:00"

\* info_modelo of lines 85-95
InfoModelo(tipo_funcion, params) ==
    LET info == [tipo_funcion |-> tipo_funcion, parametros |-> params,
                 fecha_creacion |-> Fecha]
    IN  IF tipo_funcion = "polinomio" /\ "coeficientes" \in DOMAIN params
        THEN [k \in DOMAIN info \cup {"coeficientes"} |->
                 IF k = "coeficientes" THEN params["coeficientes"] ELSE info[k]]
        ELSE info

\* the files of a model: the pickle and the CSV summary; none before the
\* save
Archivos(pkl, csv) == [pkl |-> pkl, csv |-> csv]

\* Outcome of reconstruir_funcion: the function of the coefficients coefs,
\* or None (nada), or the exception raised
Reconstruida(st, err, coefs, nada) ==
    [st |-> st, err |-> err, coefs |-> coefs, nada |-> nada]

SinCoeficientes == <<0, 0, 0, 0>>

\* reconstruir_funcion(info_modelo), lines 146-172; funcion, the function
\* that was saved, is not in the file and is not used
ReconstruirFuncion(info_modelo, funcion) ==
    LET tipo   == info_modelo["tipo_funcion"]
        params == info_modelo["parametros"]
    IN  IF tipo = "polinomio"
        THEN IF "coeficientes" \in DOMAIN info_modelo
             THEN Reconstruida("ok", "none", info_modelo["coeficientes"], FALSE)
             ELSE IF "coeficientes" \in DOMAIN params
             THEN Reconstruida("ok", "none", params["coeficientes"], FALSE)
             ELSE Reconstruida("raise", "ValueError", SinCoeficientes, FALSE)
        ELSE Reconstruida("ok", "none", SinCoeficientes, TRUE)

\* the models saved: those of procesar_multiples_curvas, lines 460-465 (a
\* polynomial, with grado, x_min and x_max) and 506-511 (a spline, with s,
\* x_min and x_max), a polynomial saved with its coefficients among the
\* parameters, and a model of another type
Escritores == {"polinomio", "spline", "con_coeficientes", "otro"}

TipoDe(escritor) ==
    IF escritor = "con_coeficientes" THEN "polinomio"
    ELSE IF escritor = "otro" THEN "racional" ELSE escritor

ParametrosDe(escritor, coeficientes, x_min, x_max) ==
    IF escritor = "spline" THEN [s |-> 1, x_min |-> x_min, x_max |-> x_max]
    ELSE IF escritor = "con_coeficientes"
    THEN [grado |-> 3, x_min |-> x_min, x_max |-> x_max,
          coeficientes |-> coeficientes]
    ELSE [grado |-> 3, x_min |-> x_min, x_max |-> x_max]

\* the state of a save and load: the files, the dict loaded, the outcome of
\* reconstruir_funcion and the <<x, value>> pairs the function returned
ModeloGuardado(archivos, info_modelo, reconstruida, valores) ==
    [archivos |-> archivos, info_modelo |-> info_modelo,
     reconstruida |-> reconstruida, valores |-> valores]

SinReconstruir == Reconstruida("none", "none", SinCoeficientes, TRUE)

InitModelo ==
    /\ pc = "call"
    /\ op = "guardar_modelo_funcion"
    /\ \E e \in Escritores, c \in CubicasMuestra, a, b \in Abscisas :
         /\ a < b
         /\ args = [funcion |-> c, tipo_funcion |-> TipoDe(e),
                    params |-> ParametrosDe(e, c, a, b), escritor |-> e]
    /\ res = ModeloGuardado(Archivos(<<>>, <<>>), <<>>, SinReconstruir, <<>>)

\* guardar_modelo_funcion(funcion, tipo_funcion, params, nombre), lines 82-119
CallGuardarModeloFuncion ==
    /\ pc = "call"
    /\ op = "guardar_modelo_funcion"
    /\ res' = [res EXCEPT !.archivos =
                  Archivos(Volcar(InfoModelo(args.tipo_funcion, args.params)),
                           ResumenCsv(args.tipo_funcion, Fecha, args.params))]
    /\ op' = "cargar_modelo_funcion"
    /\ UNCHANGED <<pc, args>>

\* cargar_modelo_funcion(ruta_archivo), lines 131-134
CallCargarModeloFuncion ==
    /\ pc = "call"
    /\ op = "cargar_modelo_funcion"
    /\ res' = [res EXCEPT !.info_modelo = Cargar(res.archivos.pkl)]
    /\ op' = "reconstruir_funcion"
    /\ UNCHANGED <<pc, args>>

\* reconstruir_funcion(info_modelo), lines 146-172
CallReconstruirFuncion ==
    /\ pc = "call"
    /\ op = "reconstruir_funcion"
    /\ res' = [res EXCEPT !.reconstruida =
                  ReconstruirFuncion(res.info_modelo, args.funcion)]
    /\ pc' = "done"
    /\ UNCHANGED <<op, args>>

\* funcion_reconstruida(x), lines 158-159
EvaluarReconstruida ==
    /\ pc = "done"
    /\ op = "reconstruir_funcion"
    /\ res.reconstruida.st = "ok"
    /\ ~res.reconstruida.nada
    /\ Len(res.valores) < 2
    /\ \E x \in Abscisas :
         res' = [res EXCEPT !.valores =
                    Append(@, <<x, Polyval(res.reconstruida.coefs, x)>>)]
    /\ UNCHANGED <<pc, op, args>>

NextModelo ==
    \/ CallGuardarModeloFuncion
    \/ CallCargarModeloFuncion
    \/ CallReconstruirFuncion
    \/ EvaluarReconstruida

SpecModelo == InitModelo /\ [][NextModelo]_vars

---------------------------------------------------------------------------
(* Claims about saving and loading a model *)

ModeloDone == pc = "done" /\ op = "reconstruir_funcion"

\* C26: for a model of type 'polinomio' written by guardar_modelo_funcion
\* as procesar_multiples_curvas writes it and read back by
\* cargar_modelo_funcion, reconstruir_funcion returns an evaluable function
\* that gives the same value as the fitted polynomial at every x: it
\* neither raises nor returns None.
C26_SaveLoadRoundTrip ==
    (ModeloDone /\ args.escritor = "polinomio")
    => /\ res.reconstruida.st = "ok"
       /\ ~res.reconstruida.nada
       /\ \A k \in 1 .. Len(res.valores) :
            res.valores[k][2] = Polyval(args.funcion, res.valores[k][1])

\* what the code does: the model of a polynomial is rebuilt exactly when its
\* coefficients were among the parameters saved; without them
\* reconstruir_funcion raises ValueError, and for any other type it
\* returns None
ReconstruyeConCoeficientes ==
    ModeloDone
    => /\ args.escritor = "con_coeficientes"
            => /\ res.reconstruida = Reconstruida("ok", "none", args.funcion, FALSE)
               /\ \A k \in 1 .. Len(res.valores) :
                    res.valores[k][2] = Polyval(args.funcion, res.valores[k][1])
       /\ args.escritor = "polinomio"
            => res.reconstruida = Reconstruida("raise", "ValueError", SinCoeficientes, FALSE)
       /\ args.escritor \in {"spline", "otro"} => res.reconstruida.nada
       /\ res.info_modelo = InfoModelo(args.tipo_funcion, args.params)
---------------------------------------------------------------------------
(* Claims about the fits of modelar_por_intervalos *)

\* line 279: np.polyfit was called in the iteration v
Invocado(v) == Len(v.puntos) > 1

\* C27: in modelar_por_intervalos every polynomial fit is invoked with
\* enough points for its degree: for each sub-interval, whatever the number
\* of points it holds, the number of points passed to np.polyfit is at
\* least 2 and at least grado + 1.
C27_EnoughPointsForDegree ==
    op = "modelar_por_intervalos"
    => \A k \in 1 .. Len(res.vistos) :
         /\ res.vistos[k].ajustado => Invocado(res.vistos[k])
         /\ Invocado(res.vistos[k])
              => /\ Len(res.vistos[k].puntos) >= 2
                 /\ Len(res.vistos[k].puntos) >= res.vistos[k].grado + 1
                 /\ res.vistos[k].grado >= 1

\* a sub-interval with one point or none was fitted with three borrowed
\* points and degree 2, and another with its own two points and degree 1
C27_Witness ==
    /\ op = "modelar_por_intervalos" /\ pc = "done" /\ res.st = "ok"
    /\ \E k \in 1 .. Len(res.vistos) :
         /\ res.vistos[k].prestado /\ res.vistos[k].ajustado
         /\ Cardinality(res.vistos[k].propios) <= 1
         /\ Len(res.vistos[k].puntos) = 3 /\ res.vistos[k].grado = 2
    /\ \E k \in 1 .. Len(res.vistos) :
         /\ ~res.vistos[k].prestado /\ res.vistos[k].ajustado
         /\ Len(res.vistos[k].puntos) = 2 /\ res.vistos[k].grado = 1
---------------------------------------------------------------------------
(* Demo2.py, lines 284-285 and 295-302: the evaluator funcion_intervalo   *)
(* of each record, called after modelar_por_intervalos has returned        *)

\* variant without the default argument: the body reads the variable coefs
\* of modelar_por_intervalos, bound by then to the coefficients of the last
\* fit
RegistroTardio(modelos, k) == modelos[Len(modelos)]

\* line 284, coeficientes=coefs: the default value is evaluated when the def
\* statement of the iteration runs, so the evaluator of record k holds the
\* coefficients of record k
RegistroDe(modelos, k) == modelos[k]

\* funcion_intervalo(x) of record k: np.polyval(coeficientes, x)
FuncionIntervalo(modelos, k, x) ==
    IF RegistroDe(modelos, k).nan THEN Medida(TRUE, Zero, "none")
    ELSE Medida(FALSE, PolyVal(RegistroDe(modelos, k).coefs, RInt(x)), "none")

\* the state after modelos[k][1](x) returned valor
Evaluado(r, k, x, valor) ==
    [st |-> r.st, err |-> r.err, i |-> r.i, ordenados |-> r.ordenados,
     limites |-> r.limites, vistos |-> r.vistos, modelos |-> r.modelos,
     llamada |-> [k |-> k, x |-> x, valor |-> valor]]

\* modelos_intervalos[k][1](x), for a record k of the list returned
EvaluarIntervalo ==
    /\ pc = "done"
    /\ op = "modelar_por_intervalos"
    /\ res.st = "ok"
    /\ \E k \in 1 .. Len(res.modelos), x \in Abscisas :
         res' = Evaluado(res, k, x, FuncionIntervalo(res.modelos, k, x))
    /\ pc' = "evaluado"
    /\ UNCHANGED <<op, args>>

NextEvaluador == NextIntervalos \/ EvaluarIntervalo

SpecEvaluador == InitIntervalos /\ [][NextEvaluador]_vars

---------------------------------------------------------------------------
(* Claim about the records of modelar_por_intervalos *)

\* modelar_por_intervalos returned its list
Retornado ==
    /\ op = "modelar_por_intervalos" /\ pc \in {"done", "evaluado"}
    /\ res.st = "ok" /\ args.num_intervalos >= 0

\* record k carries the coefficients np.polyfit gave for the points and the
\* degree of iteration k
DeLaIteracion(k) ==
    \E a \in Polyfit(res.vistos[k].puntos, res.vistos[k].grado) :
       /\ a.st = "ok"
       /\ a.coef = res.modelos[k].coefs
       /\ a.nan = res.modelos[k].nan

\* C28: when the point sequence has at least 4 points,
\* modelar_por_intervalos returns exactly num_intervalos records in
\* ascending interval order, record i carrying the interval (limites[i],
\* limites[i+1]) and the coefficients fitted in iteration i, and its
\* evaluator keeps using those coefficients after later iterations rebind
\* the loop variables; a sub-interval is left out of the result only when at
\* most one point is available to fit it (stated for calls that return).
C28_RecordsInOrder ==
    Retornado
    => /\ Len(args.puntos) >= 4
            => /\ Len(res.modelos) = args.num_intervalos
               /\ \A k \in 1 .. Len(res.modelos) :
                    /\ res.modelos[k].inicio = res.limites[k]
                    /\ res.modelos[k].fin = res.limites[k + 1]
                    /\ RLe(res.modelos[k].inicio, res.modelos[k].fin)
                    /\ res.vistos[k].ajustado
                    /\ DeLaIteracion(k)
       /\ \A k \in 1 .. Len(res.vistos) :
            ~res.vistos[k].ajustado
              => Len(res.vistos[k].puntos) <= 1 /\ Len(res.ordenados) <= 1
       /\ pc = "evaluado"
            => /\ DeLaIteracion(res.llamada.k)
               /\ res.llamada.valor.nan = res.modelos[res.llamada.k].nan
               /\ ~res.llamada.valor.nan
                    => res.llamada.valor.val =
                          PolyVal(res.modelos[res.llamada.k].coefs, RInt(res.llamada.x))

\* three sub-interval records of four points, each fitted with a different
\* line; the evaluator of the first was called after the loop ended
C28_Witness ==
    /\ Retornado /\ pc = "evaluado"
    /\ Len(args.puntos) = 4 /\ args.num_intervalos = 3
    /\ Len(res.modelos) = 3
    /\ res.llamada.k = 1
    /\ ~res.modelos[1].nan /\ ~res.modelos[3].nan
    /\ res.modelos[1].coefs # res.modelos[3].coefs
    /\ res.llamada.valor.val # PolyVal(res.modelos[3].coefs, RInt(res.llamada.x))
---------------------------------------------------------------------------
(* calculos_numericos.py, lines 60-82: longitud_arco in floating point,   *)
(* one loop iteration of simpson_compuesto at a time.  Every operation     *)
(* rounds its result to the precision of the floats; precision 0 is exact  *)
(* arithmetic.  In floating point the curves measured are the constant     *)
(* ones: the curve then returns the same float at x + h and x - h.         *)

\* derivada_numerica(f, x, h): (f(x + h) - f(x - h)) / (2 * h)
DerivadaRedondeada(c, x, h, p) ==
    Redondear(RDiv(Redondear(RSub(PolyVal(c.coef, Redondear(RAdd(x, h), p)),
                                  PolyVal(c.coef, Redondear(RSub(x, h), p))), p),
                   Redondear(RMul(RInt(2), h), p)), p)

\* variant of the integrand without the 1
RaizSinUno(d, p) == Redondear(Sqrt(Redondear(RMul(d, d), p)), p)

\* (1 + derivada**2)**0.5
RaizRedondeada(d, p) ==
    Redondear(Sqrt(Redondear(RAdd(One, Redondear(RMul(d, d), p)), p)), p)

\* integrado(x), lines 75-77
IntegradoRedondeado(c, x, h, p) == RaizRedondeada(DerivadaRedondeada(c, x, h, p), p)

\* The state of a run: n, h, suma and i are the variables of
\* simpson_compuesto, bucle the loop it is in, nodos the points at which
\* integrado was called, resultado the value returned
Arco(n, h, suma, bucle, i, nodos, resultado) ==
    [n |-> n, h |-> h, suma |-> suma, bucle |-> bucle, i |-> i, nodos |-> nodos,
     resultado |-> resultado]

InitArco ==
    /\ pc = "call"
    /\ op = "longitud_arco"
    /\ \E c \in TotalCurves, a \in Abscisas, b \in Abscisas,
          n \in 1 .. MaxSubintervalos, p \in Precisiones :
         /\ a <= b
         /\ p # 0 => (c.coef[2] = 0 /\ c.coef[3] = 0)
         /\ args = [f |-> c, a |-> a, b |-> b, n |-> n, h |-> H, precision |-> p]
    /\ res = Arco(0, Zero, Zero, "impares", 1, <<>>, Zero)

\* lines 33-40 of simpson_compuesto with f = integrado: n, h and
\* suma = f(a) + f(b)
IniciarArco ==
    /\ pc = "call"
    /\ op = "longitud_arco"
    /\ res' = TrasImpares(
                 Arco(NUsado(args.n),
                      PasoRedondeado(RInt(args.a), RInt(args.b), NUsado(args.n),
                                     args.precision),
                      Redondear(RAdd(IntegradoRedondeado(args.f, RInt(args.a),
                                                         RInt(args.h), args.precision),
                                     IntegradoRedondeado(args.f, RInt(args.b),
                                                         RInt(args.h), args.precision)),
                                args.precision),
                      "impares", 1, <<RInt(args.a), RInt(args.b)>>, Zero))
    /\ pc' = "loop"
    /\ UNCHANGED <<op, args>>

\* one iteration of the loop of line 43 or of the loop of line 48
SumarNodo ==
    /\ pc = "loop"
    /\ op = "longitud_arco"
    /\ res.i < RangoHasta(res.n)
    /\ res' = TrasImpares(
                 [res EXCEPT
                    !.i = res.i + 2,
                    !.nodos = Append(res.nodos,
                                     NodoRedondeado(RInt(args.a), res.h, res.i,
                                                    args.precision)),
                    !.suma = SumaRedondeada(res.suma, PesoDe(res.bucle),
                                IntegradoRedondeado(
                                   args.f,
                                   NodoRedondeado(RInt(args.a), res.h, res.i,
                                                  args.precision),
                                   RInt(args.h), args.precision),
                                args.precision)])
    /\ UNCHANGED <<pc, op, args>>

\* lines 54-57 of simpson_compuesto and line 82 of longitud_arco
TerminarArco ==
    /\ pc = "loop"
    /\ op = "longitud_arco"
    /\ res.bucle = "pares"
    /\ res.i >= RangoHasta(res.n)
    /\ res' = [res EXCEPT !.resultado =
                  ResultadoRedondeado(res.h, res.suma, args.precision)]
    /\ pc' = "done"
    /\ UNCHANGED <<op, args>>

NextArco == IniciarArco \/ SumarNodo \/ TerminarArco

SpecArco == InitArco /\ [][NextArco]_vars

---------------------------------------------------------------------------
(* Claims about the lower bound of longitud_arco *)

ArcoDone == op = "longitud_arco" /\ pc = "done"

\* f(x + h) = f(x - h) at every node of the run
SimetricaEnLosNodos ==
    \A k \in 1 .. Len(res.nodos) :
       PolyVal(args.f.coef, RAdd(res.nodos[k], RInt(args.h)))
         = PolyVal(args.f.coef, RSub(res.nodos[k], RInt(args.h)))

\* C29 as claimed: for a <= b, every n >= 1 and every curve that evaluates
\* without error, longitud_arco(f, a, b, n, h) is at least b - a, with
\* equality whenever f(x + h) = f(x - h) at every node, in particular for a
\* constant f (in floating point as in exact arithmetic).
C29_Original ==
    ArcoDone
    => /\ RLe(RInt(args.b - args.a), res.resultado)
       /\ SimetricaEnLosNodos => res.resultado = RInt(args.b - args.a)

\* C29 amended: in exact arithmetic longitud_arco is at least b - a, with
\* equality whenever f(x + h) = f(x - h) at every node; in floating point
\* the result for such a curve is b - a up to rounding, within
\* (b - a) * 2^(2 - p) for floats of p digits, and can be below b - a.
C29_AtLeastWidthUpToRounding ==
    ArcoDone
    => /\ Len(res.nodos) = res.n + 1
       /\ args.precision = 0
            => /\ RLe(RInt(args.b - args.a), res.resultado)
               /\ SimetricaEnLosNodos => res.resultado = RInt(args.b - args.a)
       /\ (args.precision # 0 /\ SimetricaEnLosNodos)
            => RLe(RMul(RInt(2 ^ (args.precision - 2)),
                        RAbs(RSub(res.resultado, RInt(args.b - args.a)))),
                   RInt(args.b - args.a))

\* the length of a constant curve over an interval of width 1, computed
\* with n = 6 in floats of 7 digits, is below 1
C29_Witness ==
    /\ ArcoDone /\ args.precision = 7 /\ args.n = 6
    /\ args.b - args.a = 1
    /\ RLt(res.resultado, One)
    /\ RLt(RInt(0), res.resultado)

\* the length of x^2 over [0, 2] in exact arithmetic, n = 4, is above 2
C29_WitnessExacto ==
    /\ ArcoDone /\ args.precision = 0 /\ args.n = 4
    /\ args.f.coef = <<0, 0, 1>> /\ args.a = 0 /\ args.b = 2
    /\ RLt(RInt(2), res.resultado)
    /\ ~SimetricaEnLosNodos
---------------------------------------------------------------------------
(* gui/image_panel.py: ImagePanel, its two buttons and its worker thread.  *)
(*                                                                         *)
(* The main thread runs the Tk event loop: pc is "idle" when it waits for  *)
(* an event, "dialogo" while the file dialog of cargar_imagen is open and  *)
(* "mensaje" while the message box of _procesamiento_error is open.  Both  *)
(* are modal: they hold the grab, so no button of the panel can be         *)
(* clicked, but their event loop runs the callbacks queued with after.  A  *)
(* click on a disabled button does not call its command.  A worker thread  *)
(* is "running" from Thread.start(), "leido" once it has read              *)
(* self.imagen_cargada, and "fin" once it has queued its callback; a       *)
(* thread whose call of after raises (the main loop is gone) is "muerto".  *)
(* imagen_cargada is 0 for None.                                           *)

Imagenes == {1, 2}

Hilo(estado, imagen) == [estado |-> estado, imagen |-> imagen]

\* the worker threads that have not finished
EnVuelo(hilos) == {t \in 1 .. Len(hilos) : hilos[t].estado \in {"running", "leido"}}

\* the panel after __init__, lines 17-23 and 97-102
PanelInicial ==
    [imagen_cargada |-> 0, puntos_procesados |-> 0, boton_cargar |-> "normal",
     boton_procesar |-> "disabled", progreso |-> FALSE, label_estado |-> "sin imagen",
     hilos |-> <<>>, cola |-> <<>>, atendidos |-> 0, notificados |-> <<>>]

\* variant that leaves the process button enabled
MostrarProgresoSinProcesar(r) ==
    [r EXCEPT !.label_estado = "procesando", !.progreso = TRUE,
              !.boton_cargar = "disabled"]

\* mostrar_progreso, lines 292-297
MostrarProgreso(r) ==
    [r EXCEPT !.label_estado = "procesando", !.progreso = TRUE,
              !.boton_procesar = "disabled", !.boton_cargar = "disabled"]

\* ocultar_progreso, lines 299-303
OcultarProgreso(r) ==
    [r EXCEPT !.progreso = FALSE, !.boton_procesar = "normal",
              !.boton_cargar = "normal"]

\* the outcomes of the dialog and of cv2.imread: no file chosen, a file
\* that is not an image (imread returns None or raises), or an image
Elegidos == {0} \cup Imagenes

InitPanel ==
    /\ pc = "idle"
    /\ op = "ImagePanel"
    /\ args = [imagenes |-> Imagenes]
    /\ res = PanelInicial

\* a click on boton_cargar: cargar_imagen up to the dialog, lines 121-133
ClickCargar ==
    /\ pc = "idle"
    /\ op = "ImagePanel"
    /\ res.boton_cargar = "normal"
    /\ pc' = "dialogo"
    /\ UNCHANGED <<op, args, res>>

\* the dialog is closed: cargar_imagen, lines 135-165
CerrarDialogo ==
    /\ pc = "dialogo"
    /\ op = "ImagePanel"
    /\ \E k \in Elegidos :
         res' = IF k = 0 THEN res
                ELSE [res EXCEPT !.imagen_cargada = k, !.boton_procesar = "normal",
                                 !.label_estado = "cargada"]
    /\ pc' = "idle"
    /\ UNCHANGED <<op, args>>

\* a click on boton_procesar: procesar_imagen, lines 211-221
ClickProcesar ==
    /\ pc = "idle"
    /\ op = "ImagePanel"
    /\ res.boton_procesar = "normal"
    /\ Len(res.hilos) < MaxHilos
    /\ res' = IF res.imagen_cargada = 0 THEN res
              ELSE [MostrarProgreso(res) EXCEPT
                       !.hilos = Append(res.hilos, Hilo("running", 0))]
    /\ UNCHANGED <<pc, op, args>>

\* _procesar_imagen_async, line 229: the worker reads self.imagen_cargada
HiloLee ==
    /\ op = "ImagePanel"
    /\ \E t \in 1 .. Len(res.hilos) :
         /\ res.hilos[t].estado = "running"
         /\ res' = [res EXCEPT !.hilos[t] = Hilo("leido", res.imagen_cargada)]
    /\ UNCHANGED <<pc, op, args>>

\* _procesar_imagen_async, lines 232-247: the points are stored and
\* _procesamiento_completado is queued, or an exception of the processing
\* is caught and _procesamiento_error is queued; when after itself raises,
\* the second after raises too and the thread dies
HiloTermina ==
    /\ op = "ImagePanel"
    /\ \E t \in 1 .. Len(res.hilos) :
         /\ res.hilos[t].estado = "leido"
         /\ \/ res' = [res EXCEPT
                          !.hilos[t].estado = "fin",
                          !.puntos_procesados = res.hilos[t].imagen,
                          !.cola = Append(res.cola,
                                          [cb |-> "completado",
                                           puntos |-> res.hilos[t].imagen])]
            \/ res' = [res EXCEPT
                          !.hilos[t].estado = "fin",
                          !.cola = Append(res.cola, [cb |-> "error", puntos |-> 0])]
            \/ res' = [res EXCEPT
                          !.hilos[t].estado = "muerto",
                          !.puntos_procesados = res.hilos[t].imagen]
    /\ UNCHANGED <<pc, op, args>>

\* the event loop runs the callback at the head of the queue:
\* _procesamiento_completado, lines 269-281, or _procesamiento_error up to
\* its message box, lines 283-285
EjecutarCallback ==
    /\ pc \in {"idle", "dialogo"}
    /\ op = "ImagePanel"
    /\ res.cola # <<>>
    /\ \/ /\ Head(res.cola).cb = "completado"
          /\ res' = [OcultarProgreso(res) EXCEPT
                        !.cola = Tail(res.cola),
                        !.atendidos = res.atendidos + 1,
                        !.label_estado = "completo",
                        !.notificados = Append(res.notificados, Head(res.cola).puntos)]
          /\ pc' = pc
       \/ /\ Head(res.cola).cb = "error"
          /\ res' = [OcultarProgreso(res) EXCEPT
                        !.cola = Tail(res.cola),
                        !.atendidos = res.atendidos + 1]
          /\ pc' = IF pc = "idle" THEN "mensaje" ELSE pc
    /\ UNCHANGED <<op, args>>

\* the message box is closed: _procesamiento_error, lines 287-290
CerrarMensaje ==
    /\ pc = "mensaje"
    /\ op = "ImagePanel"
    /\ res' = [res EXCEPT !.label_estado = "error"]
    /\ pc' = "idle"
    /\ UNCHANGED <<op, args>>

NextPanel ==
    \/ ClickCargar
    \/ CerrarDialogo
    \/ ClickProcesar
    \/ HiloLee
    \/ HiloTermina
    \/ EjecutarCallback
    \/ CerrarMensaje

SpecPanel == InitPanel /\ [][NextPanel]_vars

---------------------------------------------------------------------------
(* Claim about the worker thread of ImagePanel *)

\* a worker is running or its callback has not run yet
Procesando == EnVuelo(res.hilos) # {} \/ res.cola # <<>>

\* C30: in ImagePanel at most one image-processing worker thread is in
\* flight at any time and the loaded image cannot be replaced while it
\* runs: from the moment procesar_imagen starts a worker until its
\* completion or error callback runs on the main thread, both the process
\* button and the load button are disabled, and both are enabled again
\* after either callback.
C30_SingleWorker ==
    op = "ImagePanel"
    => /\ Cardinality(EnVuelo(res.hilos)) <= 1
       /\ Len(res.cola) <= 1
       /\ Procesando
            => /\ res.boton_procesar = "disabled"
               /\ res.boton_cargar = "disabled"
               /\ pc = "idle"
               /\ Cardinality(EnVuelo(res.hilos)) + Len(res.cola) = 1
       /\ \A t \in 1 .. Len(res.hilos) :
            res.hilos[t].estado = "leido" => res.hilos[t].imagen = res.imagen_cargada
       /\ (~Procesando /\ res.atendidos = Len(res.hilos) /\ res.atendidos > 0)
            => /\ res.boton_procesar = "normal"
               /\ res.boton_cargar = "normal"
       /\ \A k \in 1 .. Len(res.notificados) : res.notificados[k] \in Imagenes

\* a second worker is in flight, on another image than the first, after the
\* callback of the first enabled the buttons again
C30_Witness ==
    /\ op = "ImagePanel" /\ Len(res.hilos) = 2
    /\ res.hilos[1].estado = "fin" /\ res.atendidos = 1
    /\ res.hilos[2].estado = "leido"
    /\ res.hilos[2].imagen # res.hilos[1].imagen
    /\ res.boton_procesar = "disabled" /\ res.boton_cargar = "disabled"
=============================================================================
